---- MODULE Spec2Model ----
(***************************************************************************)
(* State-machine model of the view / seat / output coordination layer of   *)
(* the embeddable compositor (xdg_shell_handler.c, seat_handler.c,         *)
(* output_handler.c, compositor_core.c, compositor_wrapper.cpp).           *)
(*                                                                         *)
(* The protocol / scene-graph engine (wlroots) is an external collaborator *)
(* and is modelled only at the interface the handlers use: the seat's      *)
(* focused surfaces, the toplevel's activated / configure state, the       *)
(* scene's z-order and the surface life cycle.  Every handler is a pure    *)
(* operator from a state record to a state record, so that a handler which *)
(* calls another one (handle_xdg_toplevel_map -> comp_view_focus ->        *)
(* comp_seat_focus_view) is the composition of the operators, as in the C  *)
(* code.  An action of the state machine is one complete handler run.      *)
(*                                                                         *)
(* `out` is the ordered list of protocol events and host notifications the *)
(* last handler emitted; `op` names that handler and its arguments.        *)
(***************************************************************************)
EXTENDS Integers, Sequences, FiniteSets, TLC

(* ------------------------------ bounds -------------------------------- *)
\* number of toplevel slots (a slot stands for one comp_view allocation and
\* the surface of its toplevel; a slot is reused after the surface is gone)
MaxViews == 2
\* number of outputs the backend may report
MaxOutputs == 1
\* number of outputs there may be at a time where outputs are plugged in
\* next to others
MaxHotplug == 2
\* number of descriptor numbers the process may hand out for buffers
MaxFd == 3
\* largest width, height and stride of a captured buffer
MaxDim == 2

Slots == 1..MaxViews
\* every view sits at the default position (50,50), so the surfaces are
\* nested rectangles: the surface of slot t covers the points 1..t, and the
\* point 0 lies outside all of them.  Which of two overlapping surfaces is
\* on top is decided by the z-order alone.
Points == 0..MaxViews
OutputIds == 1..MaxHotplug
Fds == 1..MaxFd

NULL == 0

VARIABLES
    tl,        \* slot -> "none" | "live" | "zombie"
    xdg,       \* slot -> engine state of the toplevel and its surface
    view,      \* slot -> struct comp_view
    views,     \* server->views, head first
    scene,     \* scene nodes carrying view data, bottom first
    kbFocus,   \* seat->keyboard_state.focused_surface
    ptrFocus,  \* seat->pointer_state.focused_surface
    cursor,    \* seat->cursor_x / cursor_y
    m_views,   \* CompositorWrapper::m_views
    outputs,   \* output_manager.outputs, head first
    wlr_output_data, \* output id -> what wlr_output->data points to
    fds,       \* the descriptors the render backend has duplicated and that
               \* are open, and whether it closed one that was not
    seat,      \* struct comp_seat: initialized flag and its listeners
    hist,      \* slot -> history of the configure handshake
    kbEntered, \* surfaces that got keyboard enter and no leave since
    ptrEntered,\* surfaces that got pointer enter and no leave since
    server,    \* struct comp_server: the facade's own fields
    rb,        \* struct render_backend
    call,      \* the last facade / backend call: arguments, what the
               \* environment answered, what the call returned
    op,        \* the handler that ran last
    out        \* what it emitted, in order

vars == <<tl, xdg, view, views, scene, kbFocus, ptrFocus, cursor, m_views,
          outputs, wlr_output_data, fds, seat, hist, kbEntered, ptrEntered,
          server, rb, call, op, out>>

(* --------------------------- data structures --------------------------- *)
\* struct comp_view after calloc
FreshView ==
    [mapped |-> FALSE, scene_tree |-> FALSE, pending_configure |-> FALSE,
     listeners_active |-> FALSE, unlinked |-> 0]

\* the size of the first configure
InitialWidth == 640
InitialHeight == 480

\* engine side of a toplevel that has not committed yet.  scheduled is the
\* size of the configure last scheduled, acked tells that the client has
\* acknowledged it; geometry is the window geometry the client has set
\* (<<0, 0>> when it set none) and surface the size of its surface, both as
\* of its last commit.
FreshXdg ==
    [initialized |-> FALSE, configured |-> FALSE, mapped |-> FALSE,
     activated |-> FALSE, scheduled |-> <<0, 0>>, acked |-> FALSE,
     geometry |-> <<0, 0>>, surface |-> <<0, 0>>]

\* initial_commit: the surface has made a commit with the initial-commit
\* marker; first_configures: how often the first configure (size,
\* fullscreen, activated) was sent to it, counted from the emitted events
\* no descriptor of the render backend is open
NoFds == [open |-> {}, bad_close |-> FALSE]

FreshHist == [initial_commit |-> FALSE, first_configures |-> 0]

Ev(e, t, a) == [ev |-> e, t |-> t, arg |-> a]

Emit(s, e) == [s EXCEPT !.out = Append(@, e)]

\* wl_list_remove on a list of slots
ListRemove(seq, x) == SelectSeq(seq, LAMBDA y : y # x)

\* wl_list_insert(head, elm): elm becomes the first element
ListInsert(seq, x) == <<x>> \o seq

Contains(seq, x) == \E i \in 1..Len(seq) : seq[i] = x

Cap(n) == IF n >= 2 THEN 2 ELSE n

\* number of events named e for surface t in seq
Count(seq, e, t) ==
    Cardinality({i \in 1..Len(seq) : seq[i].ev = e /\ seq[i].t = t})

\* the surfaces between an enter and the next leave, after the events of seq
RECURSIVE Replay(_, _, _, _)
Replay(set, seq, enter, leave) ==
    IF seq = <<>> THEN set
    ELSE LET e == Head(seq)
             n == IF e.ev = enter THEN set \cup {e.t}
                  ELSE IF e.ev = leave THEN set \ {e.t} ELSE set
         IN  Replay(n, Tail(seq), enter, leave)

\* struct comp_seat after comp_seat_init succeeded: the request_cursor and
\* request_set_selection listeners are linked, the xkb objects are held
SeatUp ==
    [initialized |-> TRUE, linked |-> TRUE, unlinked |-> 0, unrefs |-> 0,
     caps |-> {"keyboard", "pointer"}]

\* struct comp_seat after memset
SeatZero ==
    [initialized |-> FALSE, linked |-> FALSE, unlinked |-> 0, unrefs |-> 0,
     caps |-> {}]

\* struct comp_server before comp_server_create, and after it (calloc).
\* output_manager is "zero" (never initialised), "init" (layout created) or
\* "connected" (new_output listener linked); xdg_shell tells whether the
\* new_toplevel / new_popup listeners are linked; init_result records what
\* the last backend initialisation returned.
ServerNone ==
    [exists |-> FALSE, use_hardware_rendering |-> FALSE,
     render_backend |-> FALSE, backend |-> FALSE, scene |-> FALSE,
     output_manager |-> "zero", compositor |-> FALSE, xdg_shell |-> FALSE,
     socket |-> FALSE, backend_started |-> FALSE, running |-> FALSE,
     init_result |-> "never", wlr_backend_started |-> FALSE]

ServerZero == [ServerNone EXCEPT !.exists = TRUE]

\* struct comp_server once initialisation and start have succeeded
ServerRunning ==
    [exists |-> TRUE, use_hardware_rendering |-> FALSE,
     render_backend |-> TRUE, backend |-> TRUE, scene |-> TRUE,
     output_manager |-> "connected", compositor |-> TRUE, xdg_shell |-> TRUE,
     socket |-> TRUE, backend_started |-> TRUE, running |-> TRUE,
     init_result |-> "ok", wlr_backend_started |-> TRUE]

\* no struct render_backend, and the one render_backend_create returns
RbNone ==
    [exists |-> FALSE, type |-> "software", renderer |-> FALSE,
     allocator |-> FALSE, pixel_buffer |-> FALSE, buffer_size |-> 0,
     dmabuf_fd |-> -1]

RbCreated(type) == [RbNone EXCEPT !.exists = TRUE, !.type = type]

\* the software backend of a running server
RbRunning ==
    [RbCreated("software") EXCEPT !.renderer = TRUE, !.allocator = TRUE]

\* a call of the facade: its name, its arguments together with what the
\* environment answered, and what it returned
Call(n, a, r) == [name |-> n, arg |-> a, ret |-> r]

NoCall == Call("none", <<>>, "none")

\* a call that also writes through pointers it was given
CallOut(n, a, r, o) == [name |-> n, arg |-> a, ret |-> r, outp |-> o]

\* the state the handlers work on
St ==
    [tl |-> tl, xdg |-> xdg, view |-> view, views |-> views, scene |-> scene,
     kbFocus |-> kbFocus, ptrFocus |-> ptrFocus, cursor |-> cursor,
     m_views |-> m_views, outputs |-> outputs,
     wlr_output_data |-> wlr_output_data, fds |-> fds, seat |-> seat,
     hist |-> hist,
     server |-> server, rb |-> rb, ret |-> "none", outp |-> <<>>,
     gone |-> {}, out |-> <<>>]

\* a function returns r
Ret(s, r) == [s EXCEPT !.ret = r]

SetAll(s, o, c) ==
    /\ call' = c
    /\ server' = s.server
    /\ rb' = s.rb
    /\ tl' = s.tl
    /\ xdg' = s.xdg
    /\ view' = s.view
    /\ views' = s.views
    /\ scene' = s.scene
    /\ kbFocus' = s.kbFocus
    /\ ptrFocus' = s.ptrFocus
    /\ cursor' = s.cursor
    /\ m_views' = s.m_views
    /\ outputs' = s.outputs
    /\ wlr_output_data' = s.wlr_output_data
    /\ fds' = s.fds
    /\ seat' = s.seat
    /\ hist' = [t \in Slots |->
                   [s.hist[t] EXCEPT !.first_configures =
                        IF o.name = "commit"
                        THEN Cap(@ + Count(s.out, "set_fullscreen", t))
                        ELSE @]]
    /\ kbEntered' = Replay(kbEntered, s.out, "kb_enter", "kb_leave") \ s.gone
    /\ ptrEntered' = Replay(ptrEntered, s.out, "ptr_enter", "ptr_leave") \ s.gone
    /\ out' = s.out
    /\ op' = o

Set(s, o) == SetAll(s, o, NoCall)

Op(n, t, a) == [name |-> n, t |-> t, arg |-> a]

(* ------------------- engine interface: seat (wlr_seat) ----------------- *)
\* wlr_seat_keyboard_notify_enter: nothing when the surface already holds
\* focus, else leave to the old surface, enter to the new one
wlr_seat_keyboard_notify_enter(s, t) ==
    IF s.kbFocus = t THEN s
    ELSE LET s1 == IF s.kbFocus # NULL
                   THEN Emit(s, Ev("kb_leave", s.kbFocus, 0)) ELSE s
         IN  [Emit(s1, Ev("kb_enter", t, 0)) EXCEPT !.kbFocus = t]

wlr_seat_keyboard_notify_clear_focus(s) ==
    IF s.kbFocus = NULL THEN s
    ELSE [Emit(s, Ev("kb_leave", s.kbFocus, 0)) EXCEPT !.kbFocus = NULL]

\* wlr_seat_keyboard_notify_key: the key goes to the focused surface, if any
wlr_seat_keyboard_notify_key(s) ==
    IF s.kbFocus = NULL THEN s ELSE Emit(s, Ev("kb_key", s.kbFocus, 0))

wlr_seat_pointer_notify_enter(s, t) ==
    IF s.ptrFocus = t THEN s
    ELSE LET s1 == IF s.ptrFocus # NULL
                   THEN Emit(s, Ev("ptr_leave", s.ptrFocus, 0)) ELSE s
         IN  [Emit(s1, Ev("ptr_enter", t, 0)) EXCEPT !.ptrFocus = t]

wlr_seat_pointer_notify_clear_focus(s) ==
    IF s.ptrFocus = NULL THEN s
    ELSE [Emit(s, Ev("ptr_leave", s.ptrFocus, 0)) EXCEPT !.ptrFocus = NULL]

\* wlr_seat_pointer_notify_motion(sx, sy): the coordinates are local to the
\* surface of view v; the event goes to the pointer-focused surface
wlr_seat_pointer_notify_motion(s, v) ==
    IF s.ptrFocus = NULL THEN s ELSE Emit(s, Ev("ptr_motion", s.ptrFocus, v))

wlr_seat_pointer_notify_button(s, pressed) ==
    IF s.ptrFocus = NULL THEN s
    ELSE Emit(s, Ev("ptr_button", s.ptrFocus, IF pressed THEN 1 ELSE 0))

(* ---------------- engine interface: toplevel and scene ----------------- *)
\* every wlr_xdg_toplevel_set_* schedules a configure for the toplevel
wlr_xdg_surface_schedule_configure(s, t) ==
    [Emit(s, Ev("schedule_configure", t, IF s.xdg[t].initialized THEN 1 ELSE 0))
        EXCEPT !.xdg[t].configured = TRUE, !.xdg[t].acked = FALSE]

wlr_xdg_toplevel_set_size(s, t, w, h) ==
    wlr_xdg_surface_schedule_configure(
        [Emit(s, Ev("set_size", t, 0)) EXCEPT !.xdg[t].scheduled = <<w, h>>],
        t)

wlr_xdg_toplevel_set_fullscreen(s, t) ==
    wlr_xdg_surface_schedule_configure(Emit(s, Ev("set_fullscreen", t, 1)), t)

wlr_xdg_toplevel_set_activated(s, t, b) ==
    wlr_xdg_surface_schedule_configure(
        [Emit(s, Ev("set_activated", t, IF b THEN 1 ELSE 0))
            EXCEPT !.xdg[t].activated = b], t)

\* wlr_xdg_toplevel_try_from_wlr_surface: NULL once the toplevel is gone
wlr_xdg_toplevel_try_from_wlr_surface(s, t) ==
    IF s.tl[t] = "live" THEN t ELSE NULL

\* wlr_scene_xdg_surface_create: a new node on top of its siblings.  A node
\* left over from an earlier mapping of the same surface stays below the
\* new one for ever (only the new one is raised), so the hit test never
\* returns it first: one entry per view is kept.
wlr_scene_xdg_surface_create(s, t) ==
    [s EXCEPT !.scene = Append(ListRemove(@, t), t)]

wlr_scene_node_raise_to_top(s, t) ==
    [s EXCEPT !.scene = Append(ListRemove(@, t), t)]

\* wlr_scene_node_at: the topmost enabled buffer node that contains the
\* point; a node is enabled while its surface is mapped
Covers(s, t, p) == s.xdg[t].mapped /\ 1 <= p /\ p <= t

wlr_scene_node_at(s, p) ==
    LET hits == {i \in 1..Len(s.scene) : Covers(s, s.scene[i], p)}
    IN  IF hits = {} THEN NULL
        ELSE s.scene[CHOOSE i \in hits : \A j \in hits : j <= i]

(* --------------------------- output manager ---------------------------- *)
\* comp_output_manager_get_primary: first of the list
comp_output_manager_get_primary(s) ==
    IF s.outputs = <<>> THEN NULL ELSE 1

\* comp_output_render_frame: frame done only after a commit that succeeded
comp_output_render_frame(s, i, commit_ok) ==
    IF i = NULL \/ ~s.outputs[i].scene_output THEN s
    ELSE LET s1 == Emit(s, Ev("scene_commit", s.outputs[i].id,
                              IF commit_ok THEN 1 ELSE 0))
         IN  IF commit_ok THEN Emit(s1, Ev("frame_done", s.outputs[i].id, 0))
             ELSE s1

\* handle_output_frame: commit, then frame done whatever the commit returned
handle_output_frame(s, i, commit_ok) ==
    IF ~s.outputs[i].scene_output THEN s
    ELSE LET s1 == Emit(s, Ev("scene_commit", s.outputs[i].id,
                              IF commit_ok THEN 1 ELSE 0))
         IN  Emit(s1, Ev("frame_done", s.outputs[i].id, 0))

(* ------------------------------- host ---------------------------------- *)
\* CompositorWrapper::viewCallback
viewCallback(s, v, added) ==
    IF added
    THEN IF ~Contains(s.m_views, v)
         THEN [s EXCEPT !.m_views = Append(@, v)] ELSE s
    ELSE [s EXCEPT !.m_views = ListRemove(@, v)]

\* the wrapper registers its callbacks right after backend initialisation,
\* before the socket exists: they are set whenever a client is served
comp_server_notify_view_added(s, v) ==
    viewCallback(Emit(s, Ev("view_added", v, 0)), v, TRUE)

\* the event carries the view's mapped flag as the host finds it
comp_server_notify_view_removed(s, v) ==
    viewCallback(Emit(s, Ev("view_removed", v,
                            IF s.view[v].mapped THEN 1 ELSE 0)), v, FALSE)

\* comp_server_notify_frame_commit: render the primary output, then tell
\* the host
comp_server_notify_frame_commit(s, commit_ok) ==
    LET o  == comp_output_manager_get_primary(s)
        s1 == IF o # NULL THEN comp_output_render_frame(s, o, commit_ok) ELSE s
    IN  Emit(s1, Ev("commit_notify", 0, 0))

(* ------------------------------- seat ---------------------------------- *)
\* comp_seat_focus_view
comp_seat_focus_view(s, v) ==
    IF v = NULL \/ ~s.view[v].mapped
    THEN wlr_seat_keyboard_notify_clear_focus(s)
    ELSE wlr_seat_keyboard_notify_enter(s, v)

\* comp_seat_get_focused_view: the view of the list whose surface is focused
comp_seat_get_focused_view(s) ==
    IF s.kbFocus # NULL /\ Contains(s.views, s.kbFocus) THEN s.kbFocus
    ELSE NULL

\* comp_seat_view_at
comp_seat_view_at(s, p) == wlr_scene_node_at(s, p)

\* faulty variant of comp_view_focus: the seat is not told
comp_view_focus_no_enter(s, v) ==
    IF v = NULL \/ ~s.view[v].mapped THEN s
    ELSE IF s.kbFocus = v THEN s
    ELSE LET prev == IF s.kbFocus = NULL THEN NULL
                     ELSE wlr_xdg_toplevel_try_from_wlr_surface(s, s.kbFocus)
             s1 == IF prev # NULL
                   THEN wlr_xdg_toplevel_set_activated(s, prev, FALSE) ELSE s
             s2 == wlr_scene_node_raise_to_top(s1, v)
             s3 == [Emit(s2, Ev("list_front", v, 0))
                      EXCEPT !.views = ListInsert(ListRemove(@, v), v)]
         IN  wlr_xdg_toplevel_set_activated(s3, v, TRUE)

\* faulty variant of comp_view_focus: a view that holds the focus already
\* is focused again
comp_view_focus_always(s, v) ==
    IF v = NULL \/ ~s.view[v].mapped THEN s
    ELSE LET prev == IF s.kbFocus = NULL THEN NULL
                     ELSE wlr_xdg_toplevel_try_from_wlr_surface(s, s.kbFocus)
             s1 == IF prev # NULL
                   THEN wlr_xdg_toplevel_set_activated(s, prev, FALSE) ELSE s
             s2 == wlr_scene_node_raise_to_top(s1, v)
             s3 == [Emit(s2, Ev("list_front", v, 0))
                      EXCEPT !.views = ListInsert(ListRemove(@, v), v)]
             s4 == wlr_xdg_toplevel_set_activated(s3, v, TRUE)
         IN  comp_seat_focus_view(s4, v)

\* faulty variant of comp_view_focus: the seat is told first
comp_view_focus_enter_first(s, v) ==
    IF v = NULL \/ ~s.view[v].mapped THEN s
    ELSE IF s.kbFocus = v THEN s
    ELSE LET prev == IF s.kbFocus = NULL THEN NULL
                     ELSE wlr_xdg_toplevel_try_from_wlr_surface(s, s.kbFocus)
             s0 == comp_seat_focus_view(s, v)
             s1 == IF prev # NULL
                   THEN wlr_xdg_toplevel_set_activated(s0, prev, FALSE)
                   ELSE s0
             s2 == wlr_scene_node_raise_to_top(s1, v)
             s3 == [Emit(s2, Ev("list_front", v, 0))
                      EXCEPT !.views = ListInsert(ListRemove(@, v), v)]
         IN  wlr_xdg_toplevel_set_activated(s3, v, TRUE)

\* comp_view_focus: nothing when the view holds the focus already; else the
\* old toplevel is deactivated, the view goes to the top of the scene and
\* to the front of the list, is activated, and the seat is told
comp_view_focus(s, v) ==
    IF v = NULL \/ ~s.view[v].mapped THEN s
    ELSE IF s.kbFocus = v THEN s
    ELSE LET prev == IF s.kbFocus = NULL THEN NULL
                     ELSE wlr_xdg_toplevel_try_from_wlr_surface(s, s.kbFocus)
             s1 == IF prev # NULL
                   THEN wlr_xdg_toplevel_set_activated(s, prev, FALSE) ELSE s
             s2 == wlr_scene_node_raise_to_top(s1, v)
             s3 == [Emit(s2, Ev("list_front", v, 0))
                      EXCEPT !.views = ListInsert(ListRemove(@, v), v)]
             s4 == wlr_xdg_toplevel_set_activated(s3, v, TRUE)
         IN  comp_seat_focus_view(s4, v)

\* comp_seat_send_key
comp_seat_send_key(s) == wlr_seat_keyboard_notify_key(s)

\* faulty variant of comp_seat_send_pointer_motion: motion first, enter after
comp_seat_send_pointer_motion_then_enter(s, p) ==
    LET s1 == [s EXCEPT !.cursor = p]
        v  == comp_seat_view_at(s1, p)
    IN  IF v # NULL /\ s1.view[v].mapped
        THEN wlr_seat_pointer_notify_enter(
                 wlr_seat_pointer_notify_motion(s1, v), v)
        ELSE wlr_seat_pointer_notify_clear_focus(s1)

\* faulty variant of comp_seat_send_pointer_motion: an enter is sent only
\* when no surface has pointer focus, not on a change of the surface
comp_seat_send_pointer_motion_enter_once(s, p) ==
    LET s1 == [s EXCEPT !.cursor = p]
        v  == comp_seat_view_at(s1, p)
    IN  IF v # NULL /\ s1.view[v].mapped
        THEN wlr_seat_pointer_notify_motion(
                 IF s1.ptrFocus = NULL
                 THEN wlr_seat_pointer_notify_enter(s1, v) ELSE s1, v)
        ELSE wlr_seat_pointer_notify_clear_focus(s1)

\* comp_seat_send_pointer_motion
comp_seat_send_pointer_motion(s, p) ==
    LET s1 == [s EXCEPT !.cursor = p]
        v  == comp_seat_view_at(s1, p)
    IN  IF v # NULL /\ s1.view[v].mapped
        THEN wlr_seat_pointer_notify_motion(
                 wlr_seat_pointer_notify_enter(s1, v), v)
        ELSE wlr_seat_pointer_notify_clear_focus(s1)

\* comp_seat_send_pointer_button
comp_seat_send_pointer_button(s, pressed) ==
    LET s1 == wlr_seat_pointer_notify_button(s, pressed)
        v  == comp_seat_view_at(s1, s1.cursor)
    IN  IF pressed /\ v # NULL THEN comp_view_focus(s1, v) ELSE s1

(* --------------------------- view life cycle --------------------------- *)
\* faulty variant of view_remove_listeners: the flag is not consulted
view_remove_listeners_unguarded(s, t) ==
    [Emit(s, Ev("listeners_removed", t, 0))
        EXCEPT !.view[t].listeners_active = FALSE,
               !.view[t].unlinked = @ + 1]

\* view_remove_listeners
view_remove_listeners(s, t) ==
    IF ~s.view[t].listeners_active THEN s
    ELSE [Emit(s, Ev("listeners_removed", t, 0))
            EXCEPT !.view[t].listeners_active = FALSE,
                   !.view[t].unlinked = @ + 1]

\* handle_new_xdg_toplevel: when calloc fails nothing is recorded and no
\* listener is added, so the toplevel never reaches this layer again
handle_new_xdg_toplevel(s, t, alloc_ok) ==
    IF ~alloc_ok THEN s
    ELSE [s EXCEPT !.tl[t] = "live",
                   !.view[t] = [FreshView EXCEPT !.listeners_active = TRUE],
                   !.views = ListInsert(@, t)]

\* faulty variant of handle_xdg_toplevel_map: the host is not told
handle_xdg_toplevel_map_silent(s, t, scene_ok) ==
    IF ~scene_ok THEN [s EXCEPT !.view[t].scene_tree = FALSE]
    ELSE LET s1 == wlr_scene_xdg_surface_create(s, t)
             s2 == [s1 EXCEPT !.view[t].scene_tree = TRUE,
                              !.view[t].mapped = TRUE]
         IN  comp_view_focus(s2, t)

\* faulty variant of handle_xdg_toplevel_map: the result of the scene-node
\* creation is not looked at
handle_xdg_toplevel_map_unchecked(s, t, scene_ok) ==
    LET s1 == IF scene_ok THEN wlr_scene_xdg_surface_create(s, t) ELSE s
        s2 == [s1 EXCEPT !.view[t].scene_tree = scene_ok,
                         !.view[t].mapped = TRUE]
        s3 == comp_view_focus(s2, t)
    IN  comp_server_notify_view_added(s3, t)

\* faulty variant of handle_xdg_toplevel_map: the mapped flag is set before
\* the scene node is created
handle_xdg_toplevel_map_flag_first(s, t, scene_ok) ==
    LET s0 == [s EXCEPT !.view[t].mapped = TRUE]
    IN  IF ~scene_ok THEN [s0 EXCEPT !.view[t].scene_tree = FALSE]
        ELSE LET s1 == wlr_scene_xdg_surface_create(s0, t)
                 s2 == [s1 EXCEPT !.view[t].scene_tree = TRUE]
                 s3 == comp_view_focus(s2, t)
             IN  comp_server_notify_view_added(s3, t)

\* handle_xdg_toplevel_map
handle_xdg_toplevel_map(s, t, scene_ok) ==
    IF ~scene_ok THEN [s EXCEPT !.view[t].scene_tree = FALSE]
    ELSE LET s1 == wlr_scene_xdg_surface_create(s, t)
             s2 == [s1 EXCEPT !.view[t].scene_tree = TRUE,
                              !.view[t].mapped = TRUE]
             s3 == comp_view_focus(s2, t)
         IN  comp_server_notify_view_added(s3, t)

\* faulty variant of handle_xdg_toplevel_unmap: the focus is left alone
handle_xdg_toplevel_unmap_keep_focus(s, t) ==
    comp_server_notify_view_removed([s EXCEPT !.view[t].mapped = FALSE], t)

\* faulty variant of handle_xdg_toplevel_unmap: the host is told last
handle_xdg_toplevel_unmap_notify_last(s, t) ==
    LET s1 == [s EXCEPT !.view[t].mapped = FALSE]
        s2 == IF s1.kbFocus # NULL /\ s1.kbFocus = t
              THEN wlr_seat_keyboard_notify_clear_focus(s1) ELSE s1
    IN  comp_server_notify_view_removed(s2, t)

\* handle_xdg_toplevel_unmap: the flag, the host, then the focus if the
\* view's surface holds it
handle_xdg_toplevel_unmap(s, t) ==
    LET s1 == [s EXCEPT !.view[t].mapped = FALSE]
        s2 == comp_server_notify_view_removed(s1, t)
    IN  IF s2.kbFocus # NULL /\ s2.kbFocus = t
        THEN wlr_seat_keyboard_notify_clear_focus(s2) ELSE s2

\* faulty variant of handle_xdg_toplevel_commit: the pending_configure flag
\* is not consulted
handle_xdg_toplevel_commit_unguarded(s, t, initial_commit, commit_ok) ==
    LET s1 == IF initial_commit
              THEN LET a == wlr_xdg_toplevel_set_size(s, t, InitialWidth,
                                                      InitialHeight)
                       b == wlr_xdg_toplevel_set_fullscreen(a, t)
                       c == wlr_xdg_toplevel_set_activated(b, t, TRUE)
                   IN  [c EXCEPT !.view[t].pending_configure = TRUE]
              ELSE s
    IN  IF s1.view[t].mapped
        THEN comp_server_notify_frame_commit(s1, commit_ok) ELSE s1

\* faulty variant of handle_xdg_toplevel_commit: the host is told of the
\* commits of unmapped views too
handle_xdg_toplevel_commit_always_notify(s, t, initial_commit, commit_ok) ==
    LET s1 == IF initial_commit /\ ~s.view[t].pending_configure
              THEN LET a == wlr_xdg_toplevel_set_size(s, t, InitialWidth,
                                                      InitialHeight)
                       b == wlr_xdg_toplevel_set_fullscreen(a, t)
                       c == wlr_xdg_toplevel_set_activated(b, t, TRUE)
                   IN  [c EXCEPT !.view[t].pending_configure = TRUE]
              ELSE s
    IN  comp_server_notify_frame_commit(s1, commit_ok)

\* handle_xdg_toplevel_commit
handle_xdg_toplevel_commit(s, t, initial_commit, commit_ok) ==
    LET s1 == IF initial_commit /\ ~s.view[t].pending_configure
              THEN LET a == wlr_xdg_toplevel_set_size(s, t, InitialWidth,
                                                      InitialHeight)
                       b == wlr_xdg_toplevel_set_fullscreen(a, t)
                       c == wlr_xdg_toplevel_set_activated(b, t, TRUE)
                   IN  [c EXCEPT !.view[t].pending_configure = TRUE]
              ELSE s
    IN  IF s1.view[t].mapped
        THEN comp_server_notify_frame_commit(s1, commit_ok) ELSE s1

\* variant: the view stays linked in the view list
handle_xdg_toplevel_destroy_keep_link(s, t) ==
    LET s2 == view_remove_listeners(s, t)
    IN  [s2 EXCEPT !.view[t] = FreshView]

\* handle_xdg_toplevel_destroy: unlink, drop the listeners, free
handle_xdg_toplevel_destroy(s, t) ==
    LET s1 == [s EXCEPT !.views = ListRemove(@, t)]
        s2 == view_remove_listeners(s1, t)
    IN  [s2 EXCEPT !.view[t] = FreshView]

\* handle_output_destroy: unlink, drop the listeners, free
output_remove_listeners(s, i) ==
    IF ~s.outputs[i].listeners_active THEN s
    ELSE [Emit(s, Ev("output_listeners_removed", s.outputs[i].id, 0))
            EXCEPT !.outputs[i].listeners_active = FALSE,
                   !.outputs[i].unlinked = @ + 1]

handle_output_destroy(s, i) ==
    LET s1 == output_remove_listeners(s, i)
    IN  [s1 EXCEPT !.outputs = SubSeq(@, 1, i - 1) \o SubSeq(@, i + 1, Len(@)),
                   !.wlr_output_data[s.outputs[i].id] = "null"]

\* comp_seat_finish
comp_seat_finish(s) ==
    IF ~s.seat.initialized THEN s
    ELSE [Emit(s, Ev("seat_listeners_removed", 0, 0))
            EXCEPT !.seat = [initialized |-> FALSE, linked |-> FALSE,
                             unlinked |-> @.unlinked + 1,
                             unrefs |-> @.unrefs + 1,
                             caps |-> @.caps]]

\* comp_seat_init: the flag is set only when every step succeeded; the
\* listeners are linked after the last step that can fail
comp_seat_init(s, ok) ==
    IF ~ok THEN [s EXCEPT !.seat = SeatZero]
    ELSE [s EXCEPT !.seat = SeatUp]

\* wlr_seat_set_capabilities: a capability that goes takes the focus of
\* its kind with it
wlr_seat_set_capabilities(s, caps) ==
    LET s1 == IF "pointer" \in caps THEN s
              ELSE wlr_seat_pointer_notify_clear_focus(s)
        s2 == IF "keyboard" \in caps THEN s1
              ELSE wlr_seat_keyboard_notify_clear_focus(s1)
    IN  [Emit(s2, Ev("set_capabilities", 0, Cardinality(caps)))
           EXCEPT !.seat.caps = caps]

\* the new-input handler; both tells that the keyboard case adds the
\* pointer capability to what it has computed
new_input_steps(s, device, both) ==
    LET caps == {"keyboard"} \cup
                (IF s.ptrFocus # NULL THEN {"pointer"} ELSE {})
    IN  IF device = "keyboard"
        THEN wlr_seat_set_capabilities(
                 s, caps \cup (IF both THEN {"pointer"} ELSE {}))
        ELSE IF device = "pointer"
        THEN wlr_seat_set_capabilities(s, s.seat.caps \cup {"pointer"})
        ELSE s

\* handle_new_input announcing the pointer only while a surface holds the
\* pointer focus
handle_new_input_focused_only(s, device) == new_input_steps(s, device, FALSE)

\* handle_new_input: a keyboard gets the keymap and becomes the seat's
\* keyboard, the seat then has keyboard and pointer; a pointer adds the
\* pointer capability; other devices are ignored
handle_new_input(s, device) == new_input_steps(s, device, TRUE)

\* handle_xdg_toplevel_request_move / _request_resize: the request is
\* logged, nothing else
handle_xdg_toplevel_request_move(s, t) == s

\* handle_xdg_toplevel_request_maximize / _request_fullscreen: acknowledge
handle_xdg_toplevel_request_maximize(s, t) ==
    wlr_xdg_surface_schedule_configure(s, t)

\* handle_new_output: the output joins the list (at its head) only when
\* render initialisation, allocation and the state commit all succeeded; a
\* failed scene-output creation is logged and the output is kept.
\* The engine's output object is new, its data pointer
\* null.  Nothing is kept when the render set-up or the allocation fails;
\* the data pointer is set to the new comp_output, which is freed again when
\* the state cannot be committed, the pointer staying as it is; otherwise
\* the listeners are added and the output is linked at the head of the list
handle_new_output(s, id, fail, scene_ok) ==
    IF fail \in {"init_render", "alloc"}
    THEN [s EXCEPT !.wlr_output_data[id] = "null"]
    ELSE IF fail = "commit_state"
    THEN [s EXCEPT !.wlr_output_data[id] = "freed"]
    ELSE [s EXCEPT !.wlr_output_data[id] = "live",
                   !.outputs =
                       <<[id |-> id, scene_output |-> scene_ok,
                          listeners_active |-> TRUE, unlinked |-> 0]>> \o @]

(* --------------------------- view queries ------------------------------ *)
\* comp_view_get_geometry that reports the window geometry only
comp_view_get_geometry_window_only(s, t) ==
    [width |-> IF s.tl[t] = "live" THEN s.xdg[t].geometry[1] ELSE 0,
     height |-> IF s.tl[t] = "live" THEN s.xdg[t].geometry[2] ELSE 0]

\* comp_view_get_geometry: width and height are those of the window
\* geometry where it is set, those of the surface otherwise
comp_view_get_geometry(s, t) ==
    IF s.tl[t] # "live" THEN [width |-> 0, height |-> 0]
    ELSE [width |-> IF s.xdg[t].geometry[1] > 0 THEN s.xdg[t].geometry[1]
                    ELSE s.xdg[t].surface[1],
          height |-> IF s.xdg[t].geometry[2] > 0 THEN s.xdg[t].geometry[2]
                     ELSE s.xdg[t].surface[2]]

\* comp_view_request_size: the size, the fullscreen state, a configure
comp_view_request_size(s, t, w, h) ==
    IF s.tl[t] # "live" THEN s
    ELSE wlr_xdg_surface_schedule_configure(
             wlr_xdg_toplevel_set_fullscreen(
                 wlr_xdg_toplevel_set_size(s, t, w, h), t), t)

(* ---------------------- render backend, set-up -------------------------- *)
\* render_backend_hardware_available: the build has the GLES2 renderer and
\* the environment names a display server
render_backend_hardware_available(e) == e.has_gles /\ e.session

\* render_backend_create: NULL when the allocation or the headless backend
\* fails
render_backend_create(s, type, ok) ==
    IF ~ok THEN Ret([s EXCEPT !.rb = RbNone], "fail")
    ELSE Ret([s EXCEPT !.rb = RbCreated(type)], "ok")

\* render_backend_init_renderer: the renderer for the backend's type, the
\* pixman renderer when the hardware one cannot be created, then the
\* allocator
render_backend_init_renderer(s, e) ==
    LET hw == s.rb.type = "hardware" /\ e.has_gles /\ e.autocreate_ok
        s1 == IF s.rb.type = "hardware" /\ ~hw
              THEN [s EXCEPT !.rb.type = "software"] ELSE s
    IN  IF ~hw /\ e.fail = "renderer" THEN Ret(s1, "fail")
        ELSE IF e.fail = "allocator"
        THEN Ret([s1 EXCEPT !.rb.renderer = TRUE], "fail")
        ELSE Ret([s1 EXCEPT !.rb.renderer = TRUE, !.rb.allocator = TRUE], "ok")

\* render_backend_destroy
\* close(2): closing a number that is not an open descriptor of the
\* backend is a double close
close(s, n) ==
    [Emit(s, Ev("close", 0, n))
       EXCEPT !.fds.open = @ \ {n},
              !.fds.bad_close = @ \/ n \notin s.fds.open]

\* dup(2) of the open descriptor src: the least number that is not open, -1
\* when the call fails or no number is left
dup(s, src, ok) ==
    LET free == Fds \ (s.fds.open \cup {src})
        n == IF ok /\ free # {}
             THEN CHOOSE i \in free : \A j \in free : i <= j
             ELSE -1
    IN  [Emit(s, Ev("dup", 0, n))
           EXCEPT !.rb.dmabuf_fd = n,
                  !.fds.open = IF n >= 0 THEN @ \cup {n} ELSE @]

\* render_backend_destroy: the pixel buffer, the descriptor if one is held,
\* the renderer, the struct
render_backend_destroy(s) ==
    LET s1 == IF s.rb.dmabuf_fd >= 0 THEN close(s, s.rb.dmabuf_fd) ELSE s
    IN  [Emit(s1, Ev("render_backend_destroy", 0, 0)) EXCEPT !.rb = RbNone]

(* ---------------------- render backend, capture ------------------------ *)
\* the data-pointer path of render_backend_capture_frame: read access, the
\* reusable pixel buffer replaced when realloc says so, the copy
capture_copy(s, c, realloc) ==
    LET needed_size == c.stride * c.height
        s1 == IF realloc
              THEN [Emit(Emit(s, Ev("free", 0, s.rb.buffer_size)),
                         Ev("malloc", 0, needed_size))
                      EXCEPT !.rb.pixel_buffer = c.malloc_ok,
                             !.rb.buffer_size = needed_size]
              ELSE s
        s2 == IF s1.rb.pixel_buffer
              THEN Emit(s1, Ev("memcpy", 0, needed_size)) ELSE s1
    IN  IF c.cause = "unreadable" THEN Ret(s, "fail")
        ELSE Ret(s2, IF s2.rb.pixel_buffer THEN "ok" ELSE "fail")

\* render_backend_capture_frame, with the decision to replace the pixel
\* buffer left to realloc. outp holds the caller's width and height.
capture_frame_steps(s, c, realloc, release) ==
    LET s0 == [s EXCEPT !.outp = [width |-> c.width_in,
                                  height |-> c.height_in]]
        s1 == [s0 EXCEPT !.outp = [width |-> c.width, height |-> c.height]]
        s2 == IF release /\ s1.rb.dmabuf_fd >= 0 /\ s1.rb.dmabuf_fd # c.fd
              THEN close(s1, s1.rb.dmabuf_fd) ELSE s1
        s3 == dup(s2, c.fd, c.dup_ok)
    IN  IF ~s.rb.exists \/ c.cause = "no_output" THEN Ret(s0, "fail")
        ELSE IF c.cause = "build" THEN Ret(s0, "fail")
        ELSE IF c.cause = "no_buffer" THEN Ret(s0, "fail")
        ELSE IF s.rb.type = "hardware" /\ c.dmabuf
        THEN Ret(s3, "ok")
        ELSE capture_copy(s1, c, realloc)

\* render_backend_capture_frame that replaces the pixel buffer whenever the
\* size needed differs from the recorded one
render_backend_capture_frame_resize(s, c) ==
    capture_frame_steps(s, c, s.rb.buffer_size # c.stride * c.height, TRUE)

\* render_backend_capture_frame that duplicates the descriptor without
\* closing the one it holds
render_backend_capture_frame_leak(s, c) ==
    capture_frame_steps(s, c, s.rb.buffer_size < c.stride * c.height, FALSE)

\* render_backend_capture_frame: the pixel buffer is replaced when the
\* recorded size is smaller than the size needed
render_backend_capture_frame(s, c) ==
    capture_frame_steps(s, c, s.rb.buffer_size < c.stride * c.height, TRUE)

(* ------------------------- subsystem set-up ---------------------------- *)
\* comp_output_manager_init, comp_output_manager_connect_backend
comp_output_manager_init(s, ok) ==
    IF ~ok THEN Ret(s, "fail")
    ELSE Ret([s EXCEPT !.server.output_manager = "init", !.outputs = <<>>],
             "ok")

comp_output_manager_connect_backend(s) ==
    [s EXCEPT !.server.output_manager = "connected"]

\* comp_output_manager_finish: removes the new_output listener without
\* asking whether it was ever linked; wl_list_remove on the zeroed link
\* writes through a null pointer
comp_output_manager_finish(s) ==
    IF s.server.output_manager # "connected" THEN Ret(s, "crash")
    ELSE [s EXCEPT !.server.output_manager = "init"]

\* comp_xdg_shell_init: the listeners are linked once the shell exists
comp_xdg_shell_init(s, ok) ==
    IF ~ok THEN Ret(s, "fail")
    ELSE Ret([s EXCEPT !.server.xdg_shell = TRUE], "ok")

\* comp_xdg_shell_finish: removes the new_toplevel and new_popup listeners
\* without asking whether they were ever linked
comp_xdg_shell_finish(s) ==
    IF ~s.server.xdg_shell THEN Ret(s, "crash")
    ELSE [s EXCEPT !.server.xdg_shell = FALSE]

(* ------------------------------ facade --------------------------------- *)
\* comp_server_create
comp_server_create(s, ok) ==
    IF ~ok THEN Ret(s, "fail")
    ELSE Ret([s EXCEPT !.server = ServerZero, !.seat = SeatZero,
                       !.rb = RbNone], "ok")

\* the steps of comp_server_init_backend_with_renderer once the mode is
\* chosen: down tells that a hardware request is downgraded to software.
\* The first failure returns false and leaves what was set up so far.
init_backend_steps(s, use_hardware, down, e) ==
    LET type == IF use_hardware /\ ~down THEN "hardware" ELSE "software"
        s0 == [s EXCEPT !.server.use_hardware_rendering =
                            use_hardware /\ ~down,
                        !.server.init_result = "failed"]
        s1 == render_backend_create(s0, type, e.fail # "create")
        s2 == render_backend_init_renderer(s1, e)
        s3 == [s2 EXCEPT !.server.render_backend = TRUE,
                         !.server.backend = TRUE]
        s4 == [s3 EXCEPT !.server.scene = TRUE]
        s5 == comp_output_manager_connect_backend(
                  comp_output_manager_init(s4, e.fail # "output_manager"))
        s6 == [s5 EXCEPT !.server.compositor = TRUE]
        s7 == comp_xdg_shell_init(s6, e.fail # "xdg_shell")
        s8 == comp_seat_init(s7, e.fail # "seat")
    IN  IF s1.ret = "fail" THEN s1
        ELSE IF s2.ret = "fail" THEN Ret(render_backend_destroy(s2), "fail")
        ELSE IF e.fail = "scene" THEN Ret(s3, "fail")
        ELSE IF e.fail = "output_manager"
        THEN comp_output_manager_init(s4, FALSE)
        ELSE IF e.fail = "compositor" THEN Ret(s5, "fail")
        ELSE IF e.fail = "xdg_shell" THEN s7
        ELSE IF e.fail = "seat" THEN Ret(s8, "fail")
        ELSE Ret([s8 EXCEPT !.server.init_result = "ok"], "ok")

\* comp_server_init_backend_with_renderer that trusts the request and never
\* asks whether hardware rendering is available
comp_server_init_backend_unprobed(s, use_hardware, e) ==
    init_backend_steps(s, use_hardware, FALSE, e)

\* comp_server_init_backend_with_renderer: a hardware request is downgraded
\* to software when hardware rendering is not available
comp_server_init_backend_with_renderer(s, use_hardware, e) ==
    init_backend_steps(s, use_hardware,
                       use_hardware /\ ~render_backend_hardware_available(e),
                       e)

\* comp_server_is_hardware_rendering
comp_server_is_hardware_rendering(s) ==
    s.server.exists /\ s.server.use_hardware_rendering

\* comp_seat_setup_keyboard: the virtual keyboard is set up, or is not
comp_seat_setup_keyboard(s, ok) == Ret(s, IF ok THEN "ok" ELSE "fail")

\* wlr_headless_add_output: the new output is none of those there are; it
\* is named by the least number not in use
wlr_headless_add_output(s) ==
    CHOOSE i \in 1..(Len(s.outputs) + 1) :
        /\ \A j \in 1..Len(s.outputs) : s.outputs[j].id # i
        /\ \A k \in 1..(i - 1) :
               \E j \in 1..Len(s.outputs) : s.outputs[j].id = k

\* the steps of comp_server_start; early tells that the headless output is
\* added before the backend is started.  wlr_backend_started is the
\* engine's own record that wlr_backend_start has succeeded on
\* server->backend
comp_server_start_steps(s, e, early) ==
    LET add(x) == IF x.server.output_manager = "connected"
                  THEN handle_new_output(x, wlr_headless_add_output(x),
                                         e.new_output, e.scene_ok)
                  ELSE x
        s0 == [s EXCEPT !.server.socket = TRUE]
        s1 == IF early THEN add(s0) ELSE s0
        sb == [s1 EXCEPT !.server.wlr_backend_started = TRUE]
        s2 == IF early THEN sb ELSE add(sb)
        s3 == comp_seat_setup_keyboard(s2, e.fail # "keyboard")
    IN  IF ~s.server.exists \/ ~s.server.backend THEN Ret(s, "fail")
        ELSE IF e.fail = "socket" THEN Ret(s, "fail")
        ELSE IF e.fail = "backend_start" THEN Ret(s1, "fail")
        ELSE IF e.fail = "output" THEN Ret(sb, "fail")
        ELSE IF s3.ret = "fail" THEN s3
        ELSE Ret([s3 EXCEPT !.server.backend_started = TRUE,
                            !.server.running = TRUE], "ok")

\* comp_server_start with the headless output added before the backend is
\* started
comp_server_start_output_first(s, e) == comp_server_start_steps(s, e, TRUE)

\* comp_server_start: socket, backend start, headless output (its
\* new_output signal runs handle_new_output when the listener is linked),
\* keyboard; the flags are set after the last step
comp_server_start(s, e) == comp_server_start_steps(s, e, FALSE)

\* comp_server_destroy with the render backend destroyed first
comp_server_destroy_backend_first(s) ==
    LET s0 == IF s.server.render_backend
              THEN [render_backend_destroy(s)
                      EXCEPT !.server.render_backend = FALSE]
              ELSE s
        s1 == comp_seat_finish(Emit(s0, Ev("comp_seat_finish", 0, 0)))
        s2 == comp_xdg_shell_finish(Emit(s1, Ev("comp_xdg_shell_finish", 0, 0)))
        s3 == comp_output_manager_finish(
                  Emit(s2, Ev("comp_output_manager_finish", 0, 0)))
        s5 == Emit(s3, Ev("wl_display_destroy", 0, 0))
    IN  IF ~s.server.exists THEN s
        ELSE IF s2.ret = "crash" THEN s2
        ELSE IF s3.ret = "crash" THEN s3
        ELSE Ret([s5 EXCEPT !.server = ServerNone, !.outputs = <<>>,
                            !.wlr_output_data = [i \in OutputIds |-> "null"]],
                 "ok")

\* comp_server_destroy: seat, xdg shell, output manager, render backend,
\* display; the process dies in the first step that writes through a null
\* pointer
comp_server_destroy(s) ==
    LET s1 == comp_seat_finish(Emit(s, Ev("comp_seat_finish", 0, 0)))
        s2 == comp_xdg_shell_finish(Emit(s1, Ev("comp_xdg_shell_finish", 0, 0)))
        s3 == comp_output_manager_finish(
                  Emit(s2, Ev("comp_output_manager_finish", 0, 0)))
        s4 == IF s3.server.render_backend
              THEN [render_backend_destroy(s3)
                      EXCEPT !.server.render_backend = FALSE]
              ELSE s3
        s5 == Emit(s4, Ev("wl_display_destroy", 0, 0))
    IN  IF ~s.server.exists THEN s
        ELSE IF s2.ret = "crash" THEN s2
        ELSE IF s3.ret = "crash" THEN s3
        ELSE Ret([s5 EXCEPT !.server = ServerNone, !.outputs = <<>>,
                            !.wlr_output_data = [i \in OutputIds |-> "null"]],
                 "ok")

(* ------------------------------ actions -------------------------------- *)
Alive == op.name # "crash"

\* the engine reports a new toplevel
NewToplevel ==
    \E t \in Slots, alloc_ok \in BOOLEAN :
        /\ Alive
        /\ tl[t] = "none"
        /\ Set(handle_new_xdg_toplevel(St, t, alloc_ok),
               Op("new_toplevel", t, IF alloc_ok THEN 1 ELSE 0))

\* the client commits its surface; the engine marks the first commit of a
\* surface that is not initialised as the initial commit
Commit ==
    \E t \in Slots, commit_ok \in BOOLEAN :
        /\ Alive
        /\ tl[t] = "live" /\ view[t].listeners_active
        /\ LET initial == ~xdg[t].initialized
               s0 == [St EXCEPT !.xdg[t].initialized = TRUE,
                                !.hist[t].initial_commit = @ \/ initial]
           IN  Set(handle_xdg_toplevel_commit(s0, t, initial, commit_ok),
                   Op("commit", t, IF initial THEN 1 ELSE 0))

\* the surface got its first buffer after a configure: the engine maps it
Map ==
    \E t \in Slots, scene_ok \in BOOLEAN :
        /\ Alive
        /\ tl[t] = "live" /\ view[t].listeners_active
        /\ xdg[t].initialized /\ xdg[t].configured /\ ~xdg[t].mapped
        /\ Set(handle_xdg_toplevel_map(
                   [St EXCEPT !.xdg[t].mapped = TRUE],
                   t, scene_ok),
               Op("map", t, IF scene_ok THEN 1 ELSE 0))

\* the surface lost its buffer: the engine unmaps it and resets the
\* configure handshake of the role
Unmap ==
    \E t \in Slots :
        /\ Alive
        /\ tl[t] = "live" /\ view[t].listeners_active
        /\ xdg[t].mapped
        /\ Set(handle_xdg_toplevel_unmap(
                   [St EXCEPT !.xdg[t].mapped = FALSE,
                              !.xdg[t].initialized = FALSE,
                              !.xdg[t].configured = FALSE], t),
               Op("unmap", t, 0))

\* the client asks for the maximized or the fullscreen state
RequestState ==
    \E t \in Slots :
        /\ Alive
        /\ tl[t] = "live" /\ view[t].listeners_active
        /\ Set(handle_xdg_toplevel_request_maximize(St, t),
               Op("request_state", t, 0))

\* the toplevel is destroyed, in whatever state the view is; the engine
\* drops the scene node with the role, the surface itself lives on until
\* SurfaceDestroy
Destroy ==
    \E t \in Slots :
        /\ Alive
        /\ tl[t] = "live" /\ view[t].listeners_active
        /\ LET s1 == handle_xdg_toplevel_destroy(St, t)
           IN  Set([s1 EXCEPT !.tl[t] = "zombie",
                              !.xdg[t] = FreshXdg,
                              !.hist[t] = FreshHist,
                              !.scene = ListRemove(@, t)],
                   Op("destroy", t, 0))

\* the surface goes: the seat drops the focus it still had on it
SurfaceDestroy ==
    \E t \in Slots :
        /\ Alive
        /\ tl[t] = "zombie"
        /\ Set([St EXCEPT !.tl[t] = "none",
                          !.gone = {t},
                          !.kbFocus = IF @ = t THEN NULL ELSE @,
                          !.ptrFocus = IF @ = t THEN NULL ELSE @],
               Op("surface_destroy", t, 0))

\* CompositorWrapper::sendKey
SendKey ==
    /\ Alive
    /\ Set(comp_seat_send_key(St), Op("key", kbFocus, 0))

\* CompositorWrapper::sendPointerMotion
SendPointerMotion ==
    \E p \in Points :
        /\ Alive
        /\ Set(comp_seat_send_pointer_motion(St, p),
               Op("motion", comp_seat_view_at(St, p), p))

\* CompositorWrapper::sendPointerButton
SendPointerButton ==
    \E pressed \in BOOLEAN :
        /\ Alive
        /\ Set(comp_seat_send_pointer_button(St, pressed),
               Op("button", comp_seat_view_at(St, cursor),
                  IF pressed THEN 1 ELSE 0))

\* CompositorWrapper::focusView on an entry that is a live view
FocusView ==
    \E i \in 1..Len(m_views) :
        /\ Alive
        /\ tl[m_views[i]] = "live"
        /\ Set(comp_view_focus(St, m_views[i]), Op("focus", m_views[i], 1))

\* CompositorWrapper::focusView on an entry whose view was freed: the read
\* of the freed struct either finds mapped == false and returns, or the
\* process dies
FocusViewDangling ==
    \E i \in 1..Len(m_views), dies \in BOOLEAN :
        /\ Alive
        /\ tl[m_views[i]] # "live"
        /\ Set(St, Op(IF dies THEN "crash" ELSE "focus_freed", m_views[i], 0))

\* the backend reports a new output
NewOutput ==
    \E id \in 1..MaxOutputs, scene_ok \in BOOLEAN,
       fail \in {"none", "init_render", "alloc", "commit_state"} :
        /\ Alive
        /\ \A i \in 1..Len(outputs) : outputs[i].id # id
        /\ Set(handle_new_output(St, id, fail, scene_ok),
               Op("new_output", id, IF fail = "none" THEN 1 ELSE 0))

\* the backend reports a new output while there may be others
HotplugOutput ==
    \E id \in OutputIds, scene_ok \in BOOLEAN,
       fail \in {"none", "init_render", "alloc", "commit_state"} :
        /\ Alive
        /\ \A i \in 1..Len(outputs) : outputs[i].id # id
        /\ Set(handle_new_output(St, id, fail, scene_ok),
               Op("new_output", id, IF fail = "none" THEN 1 ELSE 0))

\* the output's frame signal
OutputFrame ==
    \E i \in 1..Len(outputs), commit_ok \in BOOLEAN :
        /\ Alive
        /\ outputs[i].listeners_active
        /\ Set(handle_output_frame(St, i, commit_ok),
               Op("frame", outputs[i].id, IF commit_ok THEN 1 ELSE 0))

\* comp_server_render_and_notify: the host pumps the primary output
RenderAndNotify ==
    \E commit_ok \in BOOLEAN :
        /\ Alive
        /\ LET o == comp_output_manager_get_primary(St)
           IN  Set(IF o # NULL THEN comp_output_render_frame(St, o, commit_ok)
                   ELSE St,
                   Op("render", IF o # NULL THEN outputs[o].id ELSE NULL,
                      IF commit_ok THEN 1 ELSE 0))

\* the output's destroy signal
OutputDestroy ==
    \E i \in 1..Len(outputs) :
        /\ Alive
        /\ outputs[i].listeners_active
        /\ Set(handle_output_destroy(St, i), Op("output_destroy", outputs[i].id, 0))

\* view_remove_listeners applied to a view of the list, whatever its state
ViewRemoveListeners ==
    \E i \in 1..Len(views) :
        /\ Alive
        /\ Set(view_remove_listeners(St, views[i]),
               Op("view_remove_listeners", views[i],
                  IF view[views[i]].listeners_active THEN 1 ELSE 0))

\* output_remove_listeners applied to an output of the list
OutputRemoveListeners ==
    \E i \in 1..Len(outputs) :
        /\ Alive
        /\ Set(output_remove_listeners(St, i),
               Op("output_remove_listeners", outputs[i].id,
                  IF outputs[i].listeners_active THEN 1 ELSE 0))

\* comp_server_init_backend_with_renderer reaches comp_seat_init
SeatInit ==
    \E ok \in BOOLEAN :
        /\ Alive
        /\ ~seat.initialized
        /\ Set(comp_seat_init(St, ok), Op("seat_init", 0, IF ok THEN 1 ELSE 0))

\* comp_server_destroy reaches comp_seat_finish, also after an
\* initialisation that failed
SeatFinish ==
    /\ Alive
    /\ Set(comp_seat_finish(St),
           Op("seat_finish", 0, IF seat.initialized THEN 1 ELSE 0))

Init ==
    /\ tl = [t \in Slots |-> "none"]
    /\ xdg = [t \in Slots |-> FreshXdg]
    /\ view = [t \in Slots |-> FreshView]
    /\ views = <<>>
    /\ scene = <<>>
    /\ kbFocus = NULL
    /\ ptrFocus = NULL
    /\ cursor = 0
    /\ m_views = <<>>
    /\ outputs = <<>>
    /\ wlr_output_data = [i \in OutputIds |-> "null"]
    /\ fds = NoFds
    /\ seat = SeatUp
    /\ hist = [t \in Slots |-> FreshHist]
    /\ kbEntered = {}
    /\ ptrEntered = {}
    /\ server = ServerRunning
    /\ rb = RbRunning
    /\ call = NoCall
    /\ op = Op("init", 0, 0)
    /\ out = <<>>

\* the state once comp_server_start has returned: the headless output it
\* adds has been configured by handle_new_output, or was dropped by it
InitRunning ==
    /\ tl = [t \in Slots |-> "none"]
    /\ xdg = [t \in Slots |-> FreshXdg]
    /\ view = [t \in Slots |-> FreshView]
    /\ views = <<>>
    /\ scene = <<>>
    /\ kbFocus = NULL
    /\ ptrFocus = NULL
    /\ cursor = 0
    /\ m_views = <<>>
    /\ outputs \in {<<>>,
                    <<[id |-> 1, scene_output |-> TRUE,
                       listeners_active |-> TRUE, unlinked |-> 0]>>}
    /\ wlr_output_data =
           [i \in OutputIds |-> IF Contains(outputs, [id |-> i,
                                       scene_output |-> TRUE,
                                       listeners_active |-> TRUE,
                                       unlinked |-> 0])
                                THEN "live" ELSE "null"]
    /\ fds = NoFds
    /\ seat = SeatUp
    /\ hist = [t \in Slots |-> FreshHist]
    /\ kbEntered = {}
    /\ ptrEntered = {}
    /\ server = ServerRunning
    /\ rb = RbRunning
    /\ call = NoCall
    /\ op = Op("init", 0, 0)
    /\ out = <<>>

\* clients, the seat and the host, on a running server
Next ==
    \/ NewToplevel
    \/ Commit
    \/ Map
    \/ Unmap
    \/ RequestState
    \/ Destroy
    \/ SurfaceDestroy
    \/ SendKey
    \/ SendPointerMotion
    \/ SendPointerButton
    \/ FocusView
    \/ FocusViewDangling

Spec == InitRunning /\ [][Next]_vars

\* outputs coming and going under clients that commit
NextOutput ==
    \/ NewOutput
    \/ OutputFrame
    \/ RenderAndNotify
    \/ OutputDestroy
    \/ NewToplevel
    \/ Commit
    \/ Map
    \/ Unmap
    \/ Destroy
    \/ SurfaceDestroy

SpecOutput == Init /\ [][NextOutput]_vars

\* several outputs coming and going under clients that commit
NextHotplug ==
    \/ HotplugOutput
    \/ OutputFrame
    \/ RenderAndNotify
    \/ OutputDestroy
    \/ NewToplevel
    \/ Commit
    \/ Map
    \/ Unmap
    \/ Destroy
    \/ SurfaceDestroy

SpecHotplug == Init /\ [][NextHotplug]_vars

\* the teardown functions applied to views, outputs and the seat in every
\* state they can be handed, torn down already or not
NextTeardown ==
    \/ ViewRemoveListeners
    \/ OutputRemoveListeners
    \/ SeatInit
    \/ SeatFinish
    \/ NewToplevel
    \/ Commit
    \/ Map
    \/ Destroy
    \/ SurfaceDestroy
    \/ NewOutput
    \/ OutputDestroy

SpecTeardown == Init /\ [][NextTeardown]_vars

(* --------------------------- the facade -------------------------------- *)
InitSteps ==
    {"none", "create", "renderer", "allocator", "scene", "output_manager",
     "compositor", "xdg_shell", "seat"}

StartSteps == {"none", "socket", "backend_start", "output", "keyboard"}

\* comp_server_create
ServerCreate ==
    \E ok \in BOOLEAN :
        /\ Alive
        /\ ~server.exists
        /\ LET r == comp_server_create(St, ok)
           IN  SetAll(r, Op("server_create", 0, 0),
                      Call("create", [ok |-> ok], r.ret))

\* comp_server_init_backend_with_renderer, once per server
ServerInit ==
    \E use_hardware \in BOOLEAN, has_gles \in BOOLEAN, session \in BOOLEAN,
       autocreate_ok \in BOOLEAN, fail \in InitSteps :
        /\ Alive
        /\ server.exists
        /\ server.init_result = "never"
        /\ LET e == [has_gles |-> has_gles, session |-> session,
                     autocreate_ok |-> autocreate_ok, fail |-> fail]
               r == comp_server_init_backend_with_renderer(St, use_hardware, e)
           IN  SetAll(r, Op("server_init", 0, 0),
                      Call("init", [use_hardware |-> use_hardware, e |-> e],
                           r.ret))

\* comp_server_start
ServerStart ==
    \E fail \in StartSteps, new_output \in {"none", "init_render"},
       scene_ok \in BOOLEAN :
        /\ Alive
        /\ server.exists
        /\ ~server.running
        /\ Len(outputs) < MaxOutputs
        /\ LET e == [fail |-> fail, new_output |-> new_output,
                     scene_ok |-> scene_ok]
               r == comp_server_start(St, e)
           IN  SetAll(r, Op("server_start", 0, 0), Call("start", e, r.ret))

\* comp_server_destroy
ServerDestroy ==
    /\ Alive
    /\ server.exists
    /\ LET r == comp_server_destroy(St)
       IN  SetAll(r, Op(IF r.ret = "crash" THEN "crash" ELSE "server_destroy",
                        0, 0),
                  Call("destroy", <<>>, r.ret))

InitServer ==
    /\ tl = [t \in Slots |-> "none"]
    /\ xdg = [t \in Slots |-> FreshXdg]
    /\ view = [t \in Slots |-> FreshView]
    /\ views = <<>>
    /\ scene = <<>>
    /\ kbFocus = NULL
    /\ ptrFocus = NULL
    /\ cursor = 0
    /\ m_views = <<>>
    /\ outputs = <<>>
    /\ wlr_output_data = [i \in OutputIds |-> "null"]
    /\ fds = NoFds
    /\ seat = SeatZero
    /\ hist = [t \in Slots |-> FreshHist]
    /\ kbEntered = {}
    /\ ptrEntered = {}
    /\ server = ServerNone
    /\ rb = RbNone
    /\ call = NoCall
    /\ op = Op("init", 0, 0)
    /\ out = <<>>

\* the life of a server: create, initialise, start, destroy
NextServer ==
    \/ ServerCreate
    \/ ServerInit
    \/ ServerStart
    \/ ServerDestroy

SpecServer == InitServer /\ [][NextServer]_vars

\* the backend reports one more output: it has been started and the
\* output manager listens to it
BackendNewOutput ==
    /\ server.wlr_backend_started
    /\ server.output_manager = "connected"
    /\ HotplugOutput

\* the life of a server whose backend gains and loses outputs
NextBackend ==
    \/ ServerCreate
    \/ ServerInit
    \/ ServerStart
    \/ ServerDestroy
    \/ BackendNewOutput
    \/ OutputDestroy

SpecBackend == InitServer /\ [][NextBackend]_vars

(* ------------------------------ devices -------------------------------- *)
DeviceTypes == {"keyboard", "pointer", "touch"}

\* the backend reports a new input device
NewInput ==
    \E device \in DeviceTypes :
        /\ Alive
        /\ seat.initialized
        /\ Set(handle_new_input(St, device),
               Op("new_input", 0,
                  CASE device = "keyboard" -> 1
                    [] device = "pointer" -> 2
                    [] OTHER -> 0))

\* input devices arriving while clients hold the focus
NextInput ==
    \/ NewToplevel
    \/ Commit
    \/ Map
    \/ Unmap
    \/ SendPointerMotion
    \/ NewInput

SpecInput == InitRunning /\ [][NextInput]_vars

(* ---------------------------- requests -------------------------------- *)
\* the client asks for an interactive move or resize
RequestMove ==
    \E t \in Slots :
        /\ Alive
        /\ tl[t] = "live" /\ view[t].listeners_active
        /\ Set(handle_xdg_toplevel_request_move(St, t),
               Op("request_move", t, 0))

\* clients that map, unmap and send the auxiliary requests
NextRequests ==
    \/ NewToplevel
    \/ Commit
    \/ Map
    \/ Unmap
    \/ RequestState
    \/ RequestMove

SpecRequests == InitRunning /\ [][NextRequests]_vars

(* ------------------------------ focus ---------------------------------- *)
\* comp_seat_focus_view called on its own, with no view or with a live one
SeatFocusView ==
    \E v \in {NULL} \cup {t \in Slots : tl[t] = "live"} :
        /\ Alive
        /\ Set(comp_seat_focus_view(St, v), Op("seat_focus", v, 0))

\* comp_view_focus called on its own, with no view or with a live one
ViewFocus ==
    \E v \in {NULL} \cup {t \in Slots : tl[t] = "live"} :
        /\ Alive
        /\ Set(comp_view_focus(St, v), Op("view_focus", v, 0))

\* clients that map and unmap, and focus requests through both entry points
NextFocus ==
    \/ NewToplevel
    \/ Commit
    \/ Map
    \/ Unmap
    \/ SeatFocusView
    \/ ViewFocus

SpecFocus == InitRunning /\ [][NextFocus]_vars

(* ----------------------------- resize ---------------------------------- *)
\* the sizes the host asks for and the client commits
ViewSizes == {<<1, MaxDim>>, <<MaxDim, 1>>}

\* CompositorWrapper::resizeView on an entry that is a live view
RequestSize ==
    \E i \in 1..Len(m_views), wh \in ViewSizes :
        /\ Alive
        /\ tl[m_views[i]] = "live"
        /\ SetAll(comp_view_request_size(St, m_views[i], wh[1], wh[2]),
                  Op("request_size", m_views[i], 0),
                  Call("request_size",
                       [t |-> m_views[i], width |-> wh[1], height |-> wh[2]],
                       "none"))

\* the client of a mapped surface commits: it may acknowledge the configure
\* last sent, set a window geometry or none, and attach a buffer of some size
ClientCommit ==
    \E t \in Slots, ack \in BOOLEAN, geometry \in ViewSizes \cup {<<0, 0>>},
       surface \in ViewSizes, commit_ok \in BOOLEAN :
        /\ Alive
        /\ tl[t] = "live" /\ view[t].listeners_active
        /\ xdg[t].mapped
        /\ LET s0 == [St EXCEPT !.xdg[t].acked = @ \/ ack,
                                !.xdg[t].geometry = geometry,
                                !.xdg[t].surface = surface]
           IN  Set(handle_xdg_toplevel_commit(s0, t, FALSE, commit_ok),
                   Op("client_commit", t, IF ack THEN 1 ELSE 0))

\* clients that map and resize their windows on a running server
NextResize ==
    \/ NewToplevel
    \/ Commit
    \/ Map
    \/ RequestSize
    \/ ClientCommit

SpecResize == InitRunning /\ [][NextResize]_vars

(* ---------------------------- capture --------------------------------- *)
Dims == 1..MaxDim

CaptureCauses == {"none", "no_output", "build", "no_buffer", "unreadable"}

\* some capture before the next one has failed
FailedBefore ==
    call.name = "capture" /\ (call.ret = "fail" \/ call.failed_before)

\* a capture, with the note whether an earlier capture failed
CaptureCall(c, r, o, fb) ==
    [name |-> "capture", arg |-> c, ret |-> r, outp |-> o,
     failed_before |-> fb]

\* the descriptor of the buffer that is captured: an open descriptor of the
\* process, so none of those the backend holds open
BufferFd == CHOOSE i \in Fds : i \notin fds.open /\ \A j \in Fds \ fds.open : i <= j

\* render_backend_capture_frame on an initialised backend: what the scene
\* output, the buffer and the allocator answer is the environment's choice,
\* as is what the caller's width and height held before (prev). Sizes are
\* counted in pixels of a tightly packed buffer: its stride is its width.
Capture ==
    \E cause \in CaptureCauses, width \in Dims, height \in Dims,
       malloc_ok \in BOOLEAN, dmabuf \in {"none", "ok", "dup_fails"},
       prev \in {0, MaxDim} :
        /\ Alive
        /\ rb.exists
        /\ LET c == [cause |-> cause, width |-> width, height |-> height,
                     stride |-> width, malloc_ok |-> malloc_ok,
                     dmabuf |-> dmabuf # "none",
                     dup_ok |-> dmabuf = "ok", fd |-> BufferFd,
                     width_in |-> prev, height_in |-> prev]
               r == render_backend_capture_frame(St, c)
           IN  SetAll(r, Op("capture", 0, 0),
                      CaptureCall(c, r.ret, r.outp, FailedBefore))

\* a running server with a software or a hardware render backend
InitCapture ==
    /\ tl = [t \in Slots |-> "none"]
    /\ xdg = [t \in Slots |-> FreshXdg]
    /\ view = [t \in Slots |-> FreshView]
    /\ views = <<>>
    /\ scene = <<>>
    /\ kbFocus = NULL
    /\ ptrFocus = NULL
    /\ cursor = 0
    /\ m_views = <<>>
    /\ outputs = <<>>
    /\ wlr_output_data = [i \in OutputIds |-> "null"]
    /\ fds = NoFds
    /\ seat = SeatUp
    /\ hist = [t \in Slots |-> FreshHist]
    /\ kbEntered = {}
    /\ ptrEntered = {}
    /\ \E hw \in BOOLEAN :
           /\ server = [ServerRunning EXCEPT !.use_hardware_rendering = hw]
           /\ rb = [RbRunning EXCEPT
                       !.type = IF hw THEN "hardware" ELSE "software"]
    /\ call = NoCall
    /\ op = Op("init", 0, 0)
    /\ out = <<>>

NextCapture == Capture

SpecCapture == InitCapture /\ [][NextCapture]_vars

\* render_backend_destroy on its own
RbDestroy ==
    /\ Alive
    /\ rb.exists
    /\ Set(render_backend_destroy(St), Op("rb_destroy", 0, 0))

\* a new render backend of the server's mode, initialised
RbCreate ==
    /\ Alive
    /\ ~rb.exists
    /\ Set([St EXCEPT !.rb = [RbRunning EXCEPT !.type =
                                 IF server.use_hardware_rendering
                                 THEN "hardware" ELSE "software"]],
           Op("rb_create", 0, 0))

\* captures over the lifetimes of render backends
NextDescriptors ==
    \/ Capture
    \/ RbDestroy
    \/ RbCreate

SpecDescriptors == InitCapture /\ [][NextDescriptors]_vars

(* ------------------------------ properties ----------------------------- *)
\* C1: in every reachable state every live view has a scene node
\* (scene_tree set) if and only if it is mapped: none before the map
\* signal, none left after the unmap signal.
C1_SceneNodeIffMapped ==
    \A t \in Slots :
        tl[t] = "live" => (view[t].scene_tree <=> view[t].mapped)

\* a step in which comp_view_focus is asked to move keyboard focus to the
\* mapped view t, which does not hold it: by the host, by the map handler
\* or by a button press over t
FocusTransfer(t) ==
    /\ op'.t = t
    /\ kbFocus # t
    /\ \/ op'.name = "focus" /\ view[t].mapped
       \/ op'.name = "map" /\ op'.arg = 1
       \/ op'.name = "button" /\ op'.arg = 1 /\ view[t].mapped

\* C2: at most one surface holds keyboard focus (has got an enter and no
\* leave since); every focus transfer performed by comp_view_focus emits
\* exactly one keyboard-enter, the one to the new view, which then holds the
\* focus; forwarding a key never emits a keyboard-enter.
C2_OneFocusOneEnter ==
    /\ [](Cardinality(kbEntered) <= 1)
    /\ [][op'.name = "key" =>
              \A i \in 1..Len(out') : out'[i].ev # "kb_enter"]_vars
    /\ [][\A t \in Slots :
              FocusTransfer(t) =>
                  /\ Count(out', "kb_enter", t) = 1
                  /\ \A u \in Slots \ {t} : Count(out', "kb_enter", u) = 0
                  /\ kbFocus' = t
                  /\ kbEntered' = {t}]_vars

\* focus has just moved from one view to the other, with one enter
C2_Witness ==
    \E t \in Slots, u \in Slots :
        /\ t # u
        /\ op = Op("focus", t, 1)
        /\ kbFocus = t
        /\ Len(out) > 0
        /\ out[Len(out)] = Ev("kb_enter", t, 0)
        /\ Count(out, "kb_leave", u) = 1

\* C3: when the destroy signal reaches the view that holds keyboard focus
\* and is still mapped (no unmap came first), then after the handler no
\* view holds keyboard focus, the seat's focused surface does not refer to
\* the destroyed view, and the view is not in the view list.
C3_DestroyClearsFocus ==
    [][(op'.name = "destroy" /\ kbFocus = op'.t /\ view[op'.t].mapped)
          => (kbFocus' = NULL /\ ~Contains(views', op'.t))]_vars

\* C6: for every view the first configure (size, fullscreen, activated) is
\* sent exactly once: it has been sent once as soon as the surface made a
\* commit with the initial-commit marker and not at all before, it is sent
\* by that commit only, never by the creation of the toplevel and never
\* again by a later commit.
C6_FirstConfigureOnce ==
    /\ [](\A t \in Slots :
            tl[t] = "live" =>
                hist[t].first_configures =
                    (IF hist[t].initial_commit THEN 1 ELSE 0))
    /\ [][\A t \in Slots :
            Count(out', "set_fullscreen", t) > 0 =>
                (op' = Op("commit", t, 1) /\ ~hist[t].initial_commit)]_vars

\* a commit that carries the initial-commit marker again (the surface was
\* unmapped in between) and is answered with no first configure
C6_Witness ==
    \E t \in Slots :
        /\ op = Op("commit", t, 1)
        /\ Count(out, "set_fullscreen", t) = 0
        /\ hist[t].first_configures = 1

\* C7 as stated: each map signal makes the view mapped and delivers exactly
\* one view-added notification for it; when it is the map of the only
\* toplevel there is, the view list and the host's list hold one view each.
C7_EveryMapAddsView ==
    [][op'.name = "map" =>
          /\ view'[op'.t].mapped
          /\ Count(out', "view_added", op'.t) = 1
          /\ (views = <<op'.t>> /\ m_views = <<>>) =>
                 (views' = <<op'.t>> /\ m_views' = <<op'.t>>)]_vars

\* C7 amended: each map signal whose scene-node creation succeeds makes the
\* view mapped and delivers exactly one view-added notification for it, and
\* when it is the map of the only toplevel there is, the view list and the
\* host's list hold one view each; a map signal whose scene-node creation
\* fails leaves the view unmapped and delivers no notification.
C7_SuccessfulMapAddsView ==
    [][op'.name = "map" =>
          IF op'.arg = 1
          THEN /\ view'[op'.t].mapped
               /\ Count(out', "view_added", op'.t) = 1
               /\ (views = <<op'.t>> /\ m_views = <<>>) =>
                      (views' = <<op'.t>> /\ m_views' = <<op'.t>>)
          ELSE /\ ~view'[op'.t].mapped
               /\ Count(out', "view_added", op'.t) = 0]_vars

\* the only toplevel has just been mapped and reported
C7_Witness ==
    /\ op.name = "map" /\ op.arg = 1
    /\ view[op.t].mapped
    /\ Count(out, "view_added", op.t) = 1
    /\ views = <<op.t>> /\ m_views = <<op.t>>
    /\ \A u \in Slots : u # op.t => tl[u] = "none"

\* C4: whenever a pointer motion finds under the cursor a mapped view B
\* whose surface is not the pointer-focused one (the view under the cursor
\* changed from A to B), a pointer-enter on B is sent strictly before the
\* first motion delivered to B, and no motion is sent before that enter.
C4_EnterBeforeMotion ==
    [][(/\ op'.name = "motion"
        /\ op'.t # NULL
        /\ view[op'.t].mapped
        /\ ptrFocus # op'.t)
          => \E i \in 1..Len(out') :
                 /\ out'[i] = Ev("ptr_enter", op'.t, 0)
                 /\ \A k \in 1..(i - 1) : out'[k].ev # "ptr_motion"
                 /\ \E j \in (i + 1)..Len(out') :
                        out'[j] = Ev("ptr_motion", op'.t, op'.t)]_vars

\* the pointer has just crossed from one view to the other
C4_Witness ==
    \E a \in Slots, b \in Slots :
        /\ a # b
        /\ op.name = "motion" /\ op.t = b
        /\ out = <<Ev("ptr_leave", a, 0), Ev("ptr_enter", b, 0),
                   Ev("ptr_motion", b, b)>>

\* state of the views, the seat and the outputs, without the bookkeeping of
\* the last handler
data == <<tl, xdg, view, views, scene, kbFocus, ptrFocus, cursor, m_views,
          outputs, wlr_output_data, fds, seat, hist, kbEntered, ptrEntered,
          server, rb>>

\* C5: listener teardown is idempotent.  view_remove_listeners,
\* output_remove_listeners and comp_seat_finish applied to an object that is
\* torn down already change no state and remove nothing; applied to one that
\* is not, they remove its listeners once; so over its lifetime every
\* object's listeners are removed at most once, and exactly once when it is
\* torn down.
C5_TeardownIdempotent ==
    /\ [](\A t \in Slots :
              tl[t] = "live" =>
                  view[t].unlinked = (IF view[t].listeners_active THEN 0 ELSE 1))
    /\ [](\A i \in 1..Len(outputs) :
              outputs[i].unlinked =
                  (IF outputs[i].listeners_active THEN 0 ELSE 1))
    /\ [](seat.unlinked <= 1 /\ seat.unrefs = seat.unlinked)
    /\ [](seat.linked => seat.unlinked = 0)
    /\ [][op'.name \in {"view_remove_listeners", "output_remove_listeners",
                        "seat_finish"} =>
              IF op'.arg = 0
              THEN UNCHANGED data /\ out' = <<>>
              ELSE Len(out') = 1]_vars
    /\ [][op'.name = "destroy" =>
              Count(out', "listeners_removed", op'.t) = 1]_vars

\* the teardown of a view has just been applied a second time
C5_Witness ==
    \E t \in Slots :
        /\ op = Op("view_remove_listeners", t, 0)
        /\ tl[t] = "live"
        /\ ~view[t].listeners_active
        /\ view[t].unlinked = 1

\* a button press while the hit test finds a view under the cursor
PressOverView == op'.name = "button" /\ op'.arg = 1 /\ op'.t # NULL

\* C8: with two mapped views, a button press while the hit test finds view
\* 2 under the cursor makes view 2 the keyboard-focused view, leaves view 1
\* not activated, and the pointer-focused surface is the surface of view 2;
\* a key sent while a view holds keyboard focus goes to that view only.
C8_ClickFocusesViewUnderCursor ==
    /\ [][(PressOverView /\ \A u \in Slots : tl[u] = "live" /\ view[u].mapped)
              => /\ kbFocus' = op'.t
                 /\ \A u \in Slots \ {op'.t} : ~xdg'[u].activated
                 /\ ptrFocus' = op'.t]_vars
    /\ [][(op'.name = "key" /\ kbFocus # NULL)
              => out' = <<Ev("kb_key", kbFocus, 0)>>]_vars

\* C8 without its clause on the pointer focus
C8_ClickFocusesKeyboardOnly ==
    /\ [][(PressOverView /\ \A u \in Slots : tl[u] = "live" /\ view[u].mapped)
              => /\ kbFocus' = op'.t
                 /\ \A u \in Slots \ {op'.t} : ~xdg'[u].activated]_vars
    /\ [][(op'.name = "key" /\ kbFocus # NULL)
              => out' = <<Ev("kb_key", kbFocus, 0)>>]_vars

\* C9: no input event reaches a surface that was not given focus first.
\* Every key goes to a surface that got a keyboard-enter and no leave since;
\* every pointer motion or button goes to a surface that got a pointer-enter
\* and no leave since; a motion computed for the view under the cursor goes
\* to the surface of that view.
C9_NoInputWithoutEnter ==
    [][\A j \in 1..Len(out') :
          LET e   == out'[j]
              pre == SubSeq(out', 1, j - 1)
          IN  /\ e.ev = "kb_key" =>
                     e.t \in Replay(kbEntered, pre, "kb_enter", "kb_leave")
              /\ e.ev \in {"ptr_motion", "ptr_button"} =>
                     e.t \in Replay(ptrEntered, pre, "ptr_enter", "ptr_leave")
              /\ e.ev = "ptr_motion" => e.t = e.arg]_vars

\* a button press delivered to the pointer-focused surface moved keyboard
\* focus to the view under the cursor
C9_Witness ==
    \E t \in Slots :
        /\ op = Op("button", t, 1)
        /\ Len(out) > 1
        /\ out[1].ev = "ptr_button" /\ out[1].t \in ptrEntered
        /\ out[Len(out)] = Ev("kb_enter", t, 0)
        /\ kbEntered = {t}

\* C10: commit and frame-done are paired in the frame handler and in
\* comp_output_render_frame: every scene commit on an output is followed,
\* before the operation returns, by a frame-done for that output, and no
\* frame-done is sent before the commit.
C10_CommitFrameDonePaired ==
    [][\A i \in 1..Len(out') :
          /\ out'[i].ev = "scene_commit" =>
                 \E j \in (i + 1)..Len(out') :
                     out'[j] = Ev("frame_done", out'[i].t, 0)
          /\ out'[i].ev = "frame_done" =>
                 \E j \in 1..(i - 1) :
                     out'[j].ev = "scene_commit" /\ out'[j].t = out'[i].t]_vars

\* a hardware request met by a failing capability probe
ProbeFailed(c) ==
    /\ c.name = "init"
    /\ c.arg.use_hardware
    /\ ~render_backend_hardware_available(c.arg.e)

\* C11: when hardware rendering is requested and the capability probe
\* fails, initialisation does what a software request does in the same
\* environment: it returns the same result and leaves the same server and
\* render backend, the backend (when one is left) is of software type, the
\* call succeeds exactly when no software step failed, and the mode reported
\* to the caller is software.
C11_ProbeFailureDowngrades ==
    [][ProbeFailed(call') =>
         LET sw == comp_server_init_backend_with_renderer(St, FALSE,
                                                          call'.arg.e)
         IN  /\ call'.ret = sw.ret
             /\ server' = sw.server
             /\ rb' = sw.rb
             /\ (call'.ret = "ok") = (call'.arg.e.fail = "none")
             /\ (rb'.exists => rb'.type = "software")
             /\ ~comp_server_is_hardware_rendering([server |-> server'])]_vars

C11_Witness ==
    /\ ProbeFailed(call)
    /\ call.ret = "ok"
    /\ rb.exists /\ rb.type = "software"
    /\ ~comp_server_is_hardware_rendering(St)

\* C12: after a successful backend initialisation the caller is told
\* "hardware" exactly when the render backend's type is hardware.
C12_ReportedModeIsEffective ==
    (server.exists /\ server.init_result = "ok") =>
        (comp_server_is_hardware_rendering(St) <=> rb.type = "hardware")

\* C13: comp_server_destroy called after a failed backend initialisation
\* runs to its end: it removes no listener that was never linked.
C13_DestroyAfterFailedInit ==
    [][(call'.name = "destroy" /\ server.init_result = "failed") =>
         call'.ret = "ok"]_vars

\* the order in which comp_server_destroy is to reach the subsystems
TeardownOrder ==
    <<"comp_seat_finish", "comp_xdg_shell_finish",
      "comp_output_manager_finish", "render_backend_destroy",
      "wl_display_destroy">>

Rank(e) == CHOOSE k \in 1..Len(TeardownOrder) : TeardownOrder[k] = e.ev

\* the teardown steps among the events of a call, in the order they ran
Teardowns(seq) ==
    SelectSeq(seq, LAMBDA e : \E k \in 1..Len(TeardownOrder) :
                                  TeardownOrder[k] = e.ev)

\* C14: comp_server_destroy reaches the subsystems in the order seat, xdg
\* shell, output manager, render backend, display: no step runs before one
\* that precedes it, and a destroy that runs to its end has taken every
\* step, the render backend's whenever the server has one.
C14_TeardownOrder ==
    [][call'.name = "destroy" =>
         LET td == Teardowns(out')
         IN  /\ \A i, j \in 1..Len(td) : i < j => Rank(td[i]) < Rank(td[j])
             /\ call'.ret = "ok" =>
                    \A k \in 1..Len(TeardownOrder) :
                        (\E i \in 1..Len(td) : Rank(td[i]) = k)
                            <=> (k = 4 => server.render_backend)]_vars

C14_Witness ==
    /\ call.name = "destroy"
    /\ call.ret = "ok"
    /\ Len(Teardowns(out)) = Len(TeardownOrder)

\* C19: comp_server_start returns success only on a server whose backend
\* initialisation succeeded; on a server that was never initialised it
\* returns failure and changes nothing; it sets running and backend_started
\* only when the socket, the backend start, the output and the keyboard
\* set-up all succeeded.
C19_StartOnlyAfterInit ==
    /\ [][(call'.name = "start" /\ call'.ret = "ok") =>
            server.init_result = "ok"]_vars
    /\ [][(call'.name = "start" /\ server.init_result = "never") =>
            (call'.ret = "fail" /\ data' = data)]_vars
    /\ [][call'.name = "start" =>
            /\ (server'.running \/ server'.backend_started) =>
                   (call'.arg.fail = "none" /\ call'.ret = "ok")
            /\ server'.running = server'.backend_started]_vars

\* C19 without its first part: start refuses a server that was never
\* initialised, and sets the flags only after its last step.
C19_StartFlagsAfterLastStep ==
    /\ [][(call'.name = "start" /\ server.init_result = "never") =>
            (call'.ret = "fail" /\ data' = data)]_vars
    /\ [][call'.name = "start" =>
            /\ (server'.running \/ server'.backend_started) =>
                   (call'.arg.fail = "none" /\ call'.ret = "ok")
            /\ server'.running = server'.backend_started]_vars

\* a capture that fails because no frame is available: the scene state
\* cannot be built, it carries no buffer, or the buffer is asked for its
\* data and cannot be read
NoFrame(c, type) ==
    \/ c.cause \in {"build", "no_buffer"}
    \/ c.cause = "unreadable" /\ ~(type = "hardware" /\ c.dmabuf)

\* C15: a capture that fails because no frame is available returns failure
\* and leaves the pixel buffer, its recorded size and the caller's width and
\* height as they were.
C15_NoFrameLeavesAllUnchanged ==
    [][(call'.name = "capture" /\ NoFrame(call'.arg, rb.type)) =>
         /\ call'.ret = "fail"
         /\ rb'.pixel_buffer = rb.pixel_buffer
         /\ rb'.buffer_size = rb.buffer_size
         /\ call'.outp.width = call'.arg.width_in
         /\ call'.outp.height = call'.arg.height_in]_vars

\* a capture made when a readable committed buffer exists and allocation
\* can succeed
GoodCapture(c) ==
    c.name = "capture" /\ c.arg.cause = "none" /\ c.arg.malloc_ok

\* C16: once a capture has failed, every later capture made when a readable
\* committed buffer exists and allocation can succeed returns success.
C16_CaptureFailureTransient ==
    [][(GoodCapture(call') /\ call'.failed_before) =>
         call'.ret = "ok"]_vars

\* the events e among those of the last call
Did(seq, e) == \E i \in 1..Len(seq) : seq[i].ev = e

\* C17: over a capture the recorded size of the pixel buffer never
\* decreases; the buffer is freed and allocated anew only when the capture
\* needs more bytes than the recorded size; a capture that needs no more
\* keeps the buffer and its recorded size.
C17_BufferGrowsOnly ==
    [][call'.name = "capture" =>
         LET needed_size == call'.arg.stride * call'.arg.height
         IN  /\ rb'.buffer_size >= rb.buffer_size
             /\ (Did(out', "malloc") \/ Did(out', "free")) =>
                    needed_size > rb.buffer_size
             /\ needed_size <= rb.buffer_size =>
                    /\ rb'.pixel_buffer = rb.pixel_buffer
                    /\ rb'.buffer_size = rb.buffer_size]_vars

C17_Witness ==
    /\ call.name = "capture"
    /\ call.ret = "ok"
    /\ Did(out, "memcpy") /\ ~Did(out, "malloc")
    /\ call.arg.stride * call.arg.height < rb.buffer_size

\* the client of mapped view t has acknowledged the configure of a size
\* that was requested and has committed a surface of that size
ResizeDone(t) ==
    /\ tl[t] = "live" /\ view[t].mapped
    /\ xdg[t].scheduled \in ViewSizes
    /\ xdg[t].acked
    /\ xdg[t].surface = xdg[t].scheduled

\* what comp_view_get_geometry reports is the size last scheduled
ReportsScheduled(t) ==
    /\ comp_view_get_geometry(St, t).width = xdg[t].scheduled[1]
    /\ comp_view_get_geometry(St, t).height = xdg[t].scheduled[2]

\* comp_view_request_size(w, h) on a live view schedules a configure of
\* size (w, h)
RequestSchedules ==
    [][call'.name = "request_size" =>
         /\ xdg'[call'.arg.t].scheduled =
                <<call'.arg.width, call'.arg.height>>
         /\ ~xdg'[call'.arg.t].acked
         /\ Did(out', "schedule_configure")]_vars

\* C18: after comp_view_request_size(w, h) on a mapped view, once the client
\* has acknowledged the configure and committed a surface of size (w, h),
\* comp_view_get_geometry reports width w and height h.
C18_RequestedSizeReported ==
    /\ RequestSchedules
    /\ [](\A t \in Slots : ResizeDone(t) => ReportsScheduled(t))

\* C18 as amended: the same, for a client whose commit sets no window
\* geometry or sets the window geometry (w, h).
C18_RequestedSizeReportedUnlessOtherGeometry ==
    /\ RequestSchedules
    /\ [](\A t \in Slots :
            (ResizeDone(t) /\ xdg[t].geometry \in {<<0, 0>>, xdg[t].scheduled})
                => ReportsScheduled(t))

C18_Witness ==
    \E t \in Slots :
        /\ ResizeDone(t)
        /\ op.name = "client_commit" /\ op.t = t
        /\ xdg[t].geometry = <<0, 0>>
        /\ ReportsScheduled(t)

\* a focus request through comp_seat_focus_view whose target is no view or
\* a view that is not mapped clears keyboard focus
SeatFocusClears ==
    [][(op'.name = "seat_focus" /\ (op'.t = NULL \/ ~view[op'.t].mapped)) =>
         kbFocus' = NULL]_vars

\* C20: a focus request whose target is null or not mapped leaves no view
\* with keyboard focus, through comp_seat_focus_view and through
\* comp_view_focus alike.
C20_FocusOnUnmappedClears ==
    /\ SeatFocusClears
    /\ [][(op'.name = "view_focus" /\ (op'.t = NULL \/ ~view[op'.t].mapped)) =>
            kbFocus' = NULL]_vars

\* C21: comp_view_focus on a mapped view that holds keyboard focus already
\* changes nothing and sends nothing (no activated change, no keyboard
\* enter, no reordering of the view list); a mapped view holds the focus
\* once comp_view_focus has been applied to it, so applying it twice in a
\* row leaves the state the first call left.
C21_FocusIdempotent ==
    /\ [][(op'.name = "focus" /\ view[op'.t].mapped /\ kbFocus = op'.t) =>
            (out' = <<>> /\ data' = data)]_vars
    /\ [][(op'.name = "focus" /\ view[op'.t].mapped) =>
            kbFocus' = op'.t]_vars

C21_Witness ==
    /\ op.name = "focus"
    /\ view[op.t].mapped /\ kbFocus = op.t
    /\ out = <<>>
    /\ Len(views) > 1

\* the events of a focus transfer among those of a step
FocusEvents(seq) ==
    SelectSeq(seq, LAMBDA e : e.ev \in {"set_activated", "list_front",
                                       "kb_leave", "kb_enter"})

\* what a focus transfer to view t is to do, in order
TransferTo(t) ==
    (IF kbFocus # NULL /\ tl[kbFocus] = "live"
     THEN <<Ev("set_activated", kbFocus, 0)>> ELSE <<>>)
    \o <<Ev("list_front", t, 0), Ev("set_activated", t, 1)>>
    \o (IF kbFocus # NULL THEN <<Ev("kb_leave", kbFocus, 0)>> ELSE <<>>)
    \o <<Ev("kb_enter", t, 0)>>

\* C22: a focus transfer to a mapped view that does not hold the focus
\* deactivates the toplevel that held it (if any), moves the view to the
\* front of the view list leaving the order of the others, activates the
\* view and then sends the keyboard enter, in this order; afterwards the
\* view is the only one with keyboard focus.
C22_FocusTransferOrder ==
    [][\A t \in Slots :
         FocusTransfer(t) =>
             /\ FocusEvents(out') = TransferTo(t)
             /\ views' = <<t>> \o ListRemove(views, t)
             /\ xdg'[t].activated
             /\ kbFocus' = t
             /\ kbEntered' = {t}]_vars

C22_Witness ==
    \E t \in Slots, u \in Slots :
        /\ t # u
        /\ op = Op("focus", t, 1)
        /\ FocusEvents(out) =
               <<Ev("set_activated", u, 0), Ev("list_front", t, 0),
                 Ev("set_activated", t, 1), Ev("kb_leave", u, 0),
                 Ev("kb_enter", t, 0)>>
        /\ views = <<t, u>>

\* C23: whenever a view holds keyboard focus, it is the first element of
\* the view list.
C23_FocusedViewIsFirst ==
    comp_seat_get_focused_view(St) # NULL =>
        views[1] = comp_seat_get_focused_view(St)

\* C24: the unmap of the view that holds keyboard focus clears the focus
\* and gives it to no other view; the unmap of another view leaves the
\* focus where it is.
C24_UnmapClearsOwnFocus ==
    [][op'.name = "unmap" =>
         /\ ~Did(out', "kb_enter")
         /\ IF kbFocus = op'.t
            THEN kbFocus' = NULL /\ kbEntered' = {}
            ELSE /\ kbFocus' = kbFocus
                 /\ kbEntered' = kbEntered
                 /\ ~Did(out', "kb_leave")]_vars

C24_Witness ==
    \E u \in Slots :
        /\ op.name = "unmap" /\ op.t # u
        /\ Did(out, "kb_leave")
        /\ kbFocus = NULL
        /\ view[u].mapped

\* C25: on every unmap the host gets exactly one view-removed notification
\* for the view; it finds the view's mapped flag false, and it is told
\* before the focus is cleared or anything else is done.
C25_UnmapNotifiesFirst ==
    [][op'.name = "unmap" =>
         /\ Count(out', "view_removed", op'.t) = 1
         /\ out'[1] = Ev("view_removed", op'.t, 0)
         /\ ~view'[op'.t].mapped
         /\ ~Contains(m_views', op'.t)]_vars

C25_Witness ==
    /\ op.name = "unmap"
    /\ out = <<Ev("view_removed", op.t, 0), Ev("kb_leave", op.t, 0)>>

\* the commit of a mapped view tells the host once and sends no configure;
\* the commit of a view that is not mapped does not tell the host
CommitNotifiesOnce ==
    [][op'.name = "commit" =>
         IF view[op'.t].mapped
         THEN /\ Count(out', "commit_notify", 0) = 1
              /\ ~Did(out', "schedule_configure")
         ELSE ~Did(out', "commit_notify")]_vars

\* in the events of a step a render of output i comes before the
\* notification of the host
RenderBeforeNotify(seq, i) ==
    \E j, k \in 1..Len(seq) :
        /\ j < k
        /\ seq[j].ev = "scene_commit" /\ seq[j].t = i
        /\ seq[k].ev = "commit_notify"

\* C26: every commit of a mapped view tells the host exactly once, after a
\* render of the primary output, and sends no configure; the commit of a
\* view that is not mapped does not tell the host.
C26_CommitNotifiesAfterRender ==
    /\ CommitNotifiesOnce
    /\ [][(op'.name = "commit" /\ view[op'.t].mapped) =>
            /\ outputs # <<>>
            /\ RenderBeforeNotify(out', outputs[1].id)]_vars

\* C26 as amended: the render comes first whenever there is a primary
\* output and it has a scene output.
C26_CommitNotifiesAfterRenderIfOutput ==
    /\ CommitNotifiesOnce
    /\ [][(op'.name = "commit" /\ view[op'.t].mapped /\ outputs # <<>>) =>
            IF outputs[1].scene_output
            THEN RenderBeforeNotify(out', outputs[1].id)
            ELSE ~Did(out', "scene_commit")]_vars
    /\ [][(op'.name = "commit" /\ view[op'.t].mapped /\ outputs = <<>>) =>
            ~Did(out', "scene_commit")]_vars

C26_Witness ==
    /\ op.name = "commit"
    /\ view[op.t].mapped
    /\ outputs # <<>>
    /\ out = <<Ev("scene_commit", outputs[1].id, 1),
               Ev("frame_done", outputs[1].id, 0),
               Ev("commit_notify", 0, 0)>>

\* a move, resize, maximize or fullscreen request of a client
AuxiliaryRequest == op'.name \in {"request_move", "request_state"}

\* an auxiliary request changes neither the view (its mapped state, its
\* place in the scene) nor the focus nor the view list
RequestChangesNothing ==
    [][AuxiliaryRequest =>
         /\ view' = view
         /\ views' = views
         /\ scene' = scene
         /\ kbFocus' = kbFocus /\ ptrFocus' = ptrFocus
         /\ m_views' = m_views]_vars

\* C27: every move, resize, maximize and fullscreen request is answered by
\* scheduling a configure for the view, and changes neither the view's
\* position and mapped state nor the focus nor the view list.
C27_RequestsAcknowledged ==
    /\ RequestChangesNothing
    /\ [][AuxiliaryRequest =>
            Count(out', "schedule_configure", op'.t) = 1]_vars

\* the signals of a toplevel that the listeners of its view handle
ViewSignals ==
    {"commit", "map", "unmap", "request_state", "request_move", "destroy"}

\* C28: whatever state the view is in when the destroy signal arrives,
\* afterwards it is not in the view list, its listeners are inactive and the
\* other views and their order are as before; and until its slot is taken
\* by a new toplevel no handler of the view runs again.
C28_DestroyFromAnyState ==
    /\ [][op'.name = "destroy" =>
            /\ ~Contains(views', op'.t)
            /\ views' = ListRemove(views, op'.t)
            /\ ~view'[op'.t].listeners_active
            /\ \A u \in Slots \ {op'.t} : view'[u] = view[u]]_vars
    /\ [][\A t \in Slots :
            tl[t] = "zombie" \/ ~view[t].listeners_active =>
                ~(op'.t = t /\ op'.name \in ViewSignals)]_vars

\* a mapped view that held the keyboard focus has been destroyed while
\* another view is in the list
C28_Witness ==
    /\ op.name = "destroy"
    /\ kbFocus = op.t
    /\ \E u \in Slots : u # op.t /\ Contains(views, u) /\ view[u].mapped

\* the output list without the given output is what it was
OutputRejected(id) ==
    /\ outputs' = outputs
    /\ \A i \in 1..Len(outputs') : outputs'[i].id # id
    /\ comp_output_manager_get_primary(St)' = comp_output_manager_get_primary(St)

\* C29: when the state of a new output cannot be committed, the output is
\* not added to the output list, has no listeners, the engine's output
\* object keeps no pointer to the released comp_output, and the primary
\* output and the outputs there are stay as they were.
C29_FailedOutputLeavesNothing ==
    [][(op'.name = "new_output" /\ op'.arg = 0) =>
         /\ OutputRejected(op'.t)
         /\ wlr_output_data'[op'.t] # "freed"]_vars

\* the part that holds: a rejected output is neither linked nor listening
\* and the other outputs are untouched
FailedOutputNotListed ==
    [][(op'.name = "new_output" /\ op'.arg = 0) => OutputRejected(op'.t)]_vars

\* the output that comp_output_manager_get_primary returns, NULL for none
Primary == IF comp_output_manager_get_primary(St) = NULL THEN NULL
           ELSE outputs[comp_output_manager_get_primary(St)].id

\* C30: as long as the backend has not been started the output list is
\* empty and there is no primary output; once an output's destroy signal
\* has been handled, the output is not in the list and is not the primary
\* output.
C30_NoOutputBeforeStart ==
    /\ [](~server.wlr_backend_started => outputs = <<>> /\ Primary = NULL)
    /\ [](Primary # NULL => \E i \in 1..Len(outputs) : outputs[i].id = Primary)
    /\ [][op'.name = "output_destroy" =>
            /\ \A i \in 1..Len(outputs') : outputs'[i].id # op'.t
            /\ Primary' # op'.t]_vars

\* an output has been destroyed and another one is left as the primary
\* output of a started backend
C30_Witness ==
    /\ op.name = "output_destroy"
    /\ server.wlr_backend_started
    /\ Primary # NULL

\* C31: the backend holds at most one duplicated descriptor open, the one
\* in dmabuf_fd, and only in hardware mode; a descriptor is closed only by
\* the zero-copy capture that replaces it or by destroy, never twice, and
\* none is open once the backend is destroyed.
C31_DescriptorOwnedOnce ==
    /\ [](Cardinality(fds.open) <= 1)
    /\ [](~fds.bad_close)
    /\ [](fds.open = IF rb.exists /\ rb.dmabuf_fd >= 0
                     THEN {rb.dmabuf_fd} ELSE {})
    /\ [](fds.open # {} => rb.type = "hardware")
    /\ [][fds.open \ fds'.open # {} =>
            \/ op'.name = "rb_destroy"
            \/ op'.name = "capture" /\ Did(out', "dup")]_vars

\* a zero-copy capture has closed the descriptor it held and holds a new one
C31_Witness ==
    /\ op.name = "capture"
    /\ Did(out, "close") /\ Did(out, "dup")
    /\ rb.dmabuf_fd >= 0
    /\ fds.open = {rb.dmabuf_fd}

\* C32: a new input device only adds capabilities to the seat: the seat
\* keeps every capability it had, and the keyboard focus and the pointer
\* focus are what they were.
C32_NewInputOnlyAddsCapabilities ==
    [][op'.name = "new_input" =>
         /\ seat.caps \subseteq seat'.caps
         /\ kbFocus' = kbFocus
         /\ ptrFocus' = ptrFocus]_vars

\* a keyboard has been attached while one surface holds the keyboard focus
\* and none the pointer focus
C32_Witness ==
    /\ op.name = "new_input" /\ op.arg = 1
    /\ kbFocus # NULL
    /\ ptrFocus = NULL
    /\ seat.caps = {"keyboard", "pointer"}

\* C33: a view the host was told of is reported as removed by the handler
\* that releases it, destroy without an unmap included, and the host's list
\* holds no destroyed view.
C33_HostListHoldsLiveViews ==
    /\ [][(op'.name = "destroy" /\ Contains(m_views, op'.t)) =>
            Count(out', "view_removed", op'.t) = 1]_vars
    /\ [](\A i \in 1..Len(m_views) : tl[m_views[i]] = "live")

\* C34: every commit that carries the initial-commit marker is answered
\* with a configure for its view, also the initial commit of a view that
\* was unmapped before.
C34_InitialCommitConfigured ==
    [][(op'.name = "commit" /\ op'.arg = 1) =>
         Count(out', "schedule_configure", op'.t) >= 1]_vars

\* C35: no configure is scheduled for a view whose surface has not made its
\* initial commit: every configure the last handler scheduled went to an
\* initialised surface.
C35_NoConfigureBeforeInitialCommit ==
    \A i \in 1..Len(out) : out[i].ev = "schedule_configure" => out[i].arg = 1

\* C36: the surface that holds the pointer focus, if there is one, is the
\* surface of a live view that is mapped.
C36_PointerFocusOnMappedView ==
    ptrFocus # NULL => tl[ptrFocus] = "live" /\ view[ptrFocus].mapped

\* the toplevels whose last activated state set by this layer is true
Activated == {t \in Slots : tl[t] = "live" /\ xdg[t].activated}

\* C37: at most one toplevel is activated, and an activated toplevel is the
\* one whose view holds the keyboard focus.
C37_ActivatedIsFocused ==
    /\ Cardinality(Activated) <= 1
    /\ \A t \in Activated : kbFocus = t

\* C38: a map signal whose scene-node creation fails leaves the view
\* unmapped and without a scene node, the keyboard focus and the view list
\* as they were, and the host is not told of a new view.
C38_FailedMapChangesNothing ==
    [][(op'.name = "map" /\ op'.arg = 0) =>
         /\ ~view'[op'.t].mapped
         /\ ~view'[op'.t].scene_tree
         /\ kbFocus' = kbFocus
         /\ views' = views
         /\ m_views' = m_views
         /\ Count(out', "view_added", op'.t) = 0]_vars

\* the scene node of a view could not be created while another view holds
\* the keyboard focus
C38_Witness ==
    /\ op.name = "map" /\ op.arg = 0
    /\ kbFocus # NULL /\ kbFocus # op.t
    /\ ~view[op.t].mapped
    /\ Len(views) = 2

\* C39: every live view that is mapped has a scene node, and every view
\* that comp_view_focus has raised and moved to the front has one.
C39_MappedHasSceneNode ==
    /\ [](\A t \in Slots :
              (tl[t] = "live" /\ view[t].mapped) => view[t].scene_tree)
    /\ [][\A t \in Slots :
              Count(out', "list_front", t) > 0 => view'[t].scene_tree]_vars

\* the host has focused a mapped view whose earlier map signal had failed
\* for want of a scene node
C39_Witness ==
    /\ op.name = "focus"
    /\ Count(out, "list_front", op.t) = 1
    /\ view[op.t].mapped /\ view[op.t].scene_tree
    /\ \E u \in Slots : u # op.t /\ tl[u] = "live" /\ xdg[u].mapped
                        /\ ~view[u].mapped /\ ~view[u].scene_tree

\* C40: whenever the recorded size of the pixel buffer is greater than
\* zero the pixel buffer is allocated, and a capture whose allocation
\* failed does not raise the recorded size.
C40_SizeImpliesBuffer ==
    /\ [](rb.buffer_size > 0 => rb.pixel_buffer)
    /\ [][(op'.name = "capture" /\ Did(out', "malloc") /\ ~rb'.pixel_buffer)
             => rb'.buffer_size <= rb.buffer_size]_vars

====
